---- MODULE Spec2Model ----
(***************************************************************************)
(* Model of the 10-K structure parser (TenKStructureParser) of             *)
(* src/src/filing_agent/utils/filing_sections.py.                          *)
(*                                                                         *)
(* Text is a sequence of one-character strings; positions are 0-based and  *)
(* slices are half-open, as in Python.                                     *)
(***************************************************************************)
EXTENDS Integers, Sequences, FiniteSets, TLC

VARIABLES
    client,           \* self.anthropic_client is set
    current_soup,     \* self.current_soup: the document (index in Docs) whose tree
                      \* is stashed, 0 before the first parse
    pc,               \* "idle" | "chunks" (in the loop over chunks) | "sections"
                      \* (in the loop over the sections of a chunk) | "parsed" |
                      \* "queried"
    parse_chunks,     \* parse_structured_filing: the chunks of the document
    parse_i,          \* _llm_parse_structure_pydantic: the chunks started so far
    pending_sections, \* the sections_found of the current chunk still to be handled
    parse_sections,   \* _llm_parse_structure_pydantic: the tree being built
    result,           \* the ParsedFiling returned by parse_structured_filing
    raised,           \* the exception that reached the caller, "none" if none
    last,             \* the last query and its outcome
    stores,           \* history: the sections stored, in order, each with its chunk
    failures,         \* history: the oracles that failed during this session
    calls,            \* history: the structure-mapping calls, in order, each with
                      \* the chunk submitted and whether a valid reply came back
    fetch,            \* execute_tool: the download of the filing and, where the tool
                      \* call ended there, the tool and its result
    fn_pc,            \* position of the pure-function harness: "ready" | "done"
    fn_arg,           \* the arguments the function under check is applied to
    fn_loc,           \* its local variables while its loop runs
    fn_ret            \* its return value

main_vars == <<client, current_soup, pc, parse_chunks, parse_i, pending_sections,
               parse_sections, result, raised, last, stores, failures, calls, fetch>>

fn_vars == <<fn_pc, fn_arg, fn_loc, fn_ret>>

vars == <<main_vars, fn_vars>>

(***************************************************************************)
(* Python str primitives                                                   *)
(***************************************************************************)
Min(S) == CHOOSE x \in S : \A y \in S : x <= y

Whitespace == {" ", "\t", "\n", "\r"}

Digits == {"0", "1", "2", "3", "4", "5", "6", "7", "8", "9"}

UpperLetters == <<"A","B","C","D","E","F","G","H","I","J","K","L","M","N","O","P","Q","R","S","T","U","V","W","X","Y","Z">>

LowerLetters == <<"a","b","c","d","e","f","g","h","i","j","k","l","m","n","o","p","q","r","s","t","u","v","w","x","y","z">>

ToLower == [c \in {UpperLetters[i] : i \in 1..26} |->
              LowerLetters[CHOOSE i \in 1..26 : UpperLetters[i] = c]]

ToUpper == [c \in {LowerLetters[i] : i \in 1..26} |->
              UpperLetters[CHOOSE i \in 1..26 : LowerLetters[i] = c]]

\* str.lower()
lower(s) == [i \in 1..Len(s) |-> IF s[i] \in DOMAIN ToLower THEN ToLower[s[i]] ELSE s[i]]

\* str.upper()
upper(s) == [i \in 1..Len(s) |-> IF s[i] \in DOMAIN ToUpper THEN ToUpper[s[i]] ELSE s[i]]

\* s[a:b] for 0 <= a
slice(s, a, b) == SubSeq(s, a + 1, IF b < Len(s) THEN b ELSE Len(s))

\* s[i:i+len(sub)] == sub
match_at(s, sub, i) ==
    /\ i + Len(sub) <= Len(s)
    /\ \A j \in 1..Len(sub) : s[i + j] = sub[j]

\* s.find(sub, start): the lowest index of sub at or after start, or -1
find(s, sub, start) ==
    LET hits == {i \in start..(Len(s) - Len(sub)) : match_at(s, sub, i)}
    IN  IF hits = {} THEN -1 ELSE Min(hits)

\* sub in s
contains(sub, s) == find(s, sub, 0) # -1

\* str.strip()
strip(s) ==
    LET n == Len(s)
        lead == {i \in 0..n : i = n \/ s[i + 1] \notin Whitespace}
        trail == {i \in 0..n : i = n \/ s[n - i] \notin Whitespace}
    IN  SubSeq(s, Min(lead) + 1, n - Min(trail))

\* s.split('\n')
RECURSIVE split_lines(_)
split_lines(s) ==
    LET nl == find(s, <<"\n">>, 0)
    IN  IF nl = -1 THEN <<s>>
        ELSE <<slice(s, 0, nl)>> \o split_lines(slice(s, nl + 1, Len(s)))

\* '\n'.join(lines)
RECURSIVE join_lines(_)
join_lines(lines) ==
    IF lines = <<>> THEN <<>>
    ELSE IF Len(lines) = 1 THEN lines[1]
    ELSE lines[1] \o <<"\n">> \o join_lines(Tail(lines))

\* The concatenation of a sequence of sequences.
RECURSIVE concat(_)
concat(seqs) == IF seqs = <<>> THEN <<>> ELSE Head(seqs) \o concat(Tail(seqs))

(***************************************************************************)
(* Chunk splitter                                                          *)
(***************************************************************************)
section_markers == <<
    <<"P","A","R","T"," ","I">>, <<"P","A","R","T"," ","I","I">>, <<"P","A","R","T"," ","I","I","I">>, <<"P","A","R","T"," ","I","V">>,
    <<"I","t","e","m"," ","1",".">>, <<"I","t","e","m"," ","2",".">>, <<"I","t","e","m"," ","3",".">>, <<"I","t","e","m"," ","4",".">>, <<"I","t","e","m"," ","5",".">>, <<"I","t","e","m"," ","6",".">>,
    <<"I","t","e","m"," ","7",".">>, <<"I","t","e","m"," ","8",".">>, <<"I","t","e","m"," ","9",".">>,
    <<"I","t","e","m"," ","1","0",".">>, <<"I","t","e","m"," ","1","1",".">>, <<"I","t","e","m"," ","1","2",".">>, <<"I","t","e","m"," ","1","3",".">>, <<"I","t","e","m"," ","1","4",".">>, <<"I","t","e","m"," ","1","5",".">>,
    <<"I","t","e","m"," ","1","6",".">>,
    <<"S","I","G","N","A","T","U","R","E","S">> >>

\* any(marker in line_upper for marker in section_markers)
is_section_break(line) ==
    LET line_upper == upper(strip(line))
    IN  \E k \in 1..Len(section_markers) : contains(section_markers[k], line_upper)

\* A faulty variant of split_step: the buffer is flushed at any line that
\* takes it past max_chunk_size, marker or not.
split_step_at_any_line(st, line, max_chunk_size) ==
    IF /\ Len(st.current_chunk) + Len(line) > max_chunk_size
       /\ st.current_chunk # <<>>
    THEN [chunks |-> Append(st.chunks, strip(st.current_chunk)),
          current_chunk |-> line \o <<"\n">>]
    ELSE [chunks |-> st.chunks,
          current_chunk |-> st.current_chunk \o line \o <<"\n">>]

\* A faulty variant of split_step: the flushed buffer restarts empty, dropping the
\* line that triggered the flush.
split_step_drops_line(st, line, max_chunk_size) ==
    IF /\ Len(st.current_chunk) + Len(line) > max_chunk_size
       /\ is_section_break(line)
       /\ st.current_chunk # <<>>
    THEN [chunks |-> Append(st.chunks, strip(st.current_chunk)),
          current_chunk |-> <<>>]
    ELSE [chunks |-> st.chunks,
          current_chunk |-> st.current_chunk \o line \o <<"\n">>]

\* One iteration of the loop over lines.
split_step(st, line, max_chunk_size) ==
    IF /\ Len(st.current_chunk) + Len(line) > max_chunk_size
       /\ is_section_break(line)
       /\ st.current_chunk # <<>>
    THEN [chunks |-> Append(st.chunks, strip(st.current_chunk)),
          current_chunk |-> line \o <<"\n">>]
    ELSE [chunks |-> st.chunks,
          current_chunk |-> st.current_chunk \o line \o <<"\n">>]

RECURSIVE split_loop(_, _, _)
split_loop(st, lines, max_chunk_size) ==
    IF lines = <<>> THEN st
    ELSE split_loop(split_step(st, Head(lines), max_chunk_size), Tail(lines),
                    max_chunk_size)

\* chunks and current_chunk before the loop.
split_start == [chunks |-> <<>>, current_chunk |-> <<>>]

\* A faulty variant of split_return: the last chunk is never added.
split_return_without_last(st) == st.chunks

\* After the loop: the last chunk is added unless it is blank.
split_return(st) ==
    IF strip(st.current_chunk) # <<>>
    THEN Append(st.chunks, strip(st.current_chunk))
    ELSE st.chunks

split_content_intelligently(text_content, max_chunk_size) ==
    split_return(split_loop(split_start, split_lines(text_content), max_chunk_size))

(***************************************************************************)
(* Content preprocessor                                                    *)
(***************************************************************************)
any_in(indicators, text) == \E k \in 1..Len(indicators) : contains(indicators[k], text)

xbrl_indicators ==
    << <<"c","o","n","t","e","x","t"," ","i","d","=">>, <<"x","b","r","l">>, <<"t","a","x","o","n","o","m","y">>, <<"n","a","m","e","s","p","a","c","e">>, <<"s","c","h","e","m","a">>, <<"e","n","t","i","t","y"," ","i","d","e","n","t","i","f","i","e","r">> >>

xbrl_stop_indicators == << <<"p","a","r","t"," ","i">>, <<"i","t","e","m"," ","1">>, <<"b","u","s","i","n","e","s","s">>, <<"t","a","b","l","e"," ","o","f"," ","c","o","n","t","e","n","t","s">> >>

toc_indicators == << <<"t","a","b","l","e"," ","o","f"," ","c","o","n","t","e","n","t","s">>, <<"i","n","d","e","x">>, <<"p","a","r","t"," ","i">>, <<"p","a","r","t"," ","i","i">>, <<"p","a","r","t"," ","i","i","i">> >>

narrative_indicators ==
    << <<"f","o","r","w","a","r","d","-","l","o","o","k","i","n","g"," ","s","t","a","t","e","m","e","n","t","s">>, <<"i","t","e","m"," ","1",".">>, <<"p","a","r","t"," ","i"," ","-"," ","i","t","e","m"," ","1">>, <<"b","u","s","i","n","e","s","s","\n","t","h","e"," ","c","o","m","p","a","n","y">> >>

alternative_indicators ==
    << <<"i","t","e","m"," ","1","."," ","b","u","s","i","n","e","s","s">>, <<"p","a","r","t"," ","i"," ","-"," ","i","t","e","m"," ","1">>, <<"u","n","d","e","r","w","r","i","t","i","n","g"," ","f","o","r">>, <<"t","h","e"," ","c","o","m","p","a","n","y"," ","o","p","e","r","a","t","e","s">> >>

position_words == << <<"c","o","m","p","a","n","y">>, <<"b","u","s","i","n","e","s","s">>, <<"o","p","e","r","a","t","i","o","n","s">>, <<"i","n","s","u","r","a","n","c","e">>, <<"f","i","n","a","n","c","i","a","l">> >>

TocEntryMaxLen == 100

NarrativeMinLen == 20

AlternativeMinLen == 15

PositionMinLen == 50

PositionScanLines == 1000

PositionFallbackMaxLines == 1000

has_digit(line) == \E i \in 1..Len(line) : line[i] \in Digits

\* One iteration of the loop over lines; st carries the three flags and
\* cleaned_lines.
preprocess_step(st, line) ==
    LET line_lower == lower(strip(line))
        stripped_len == Len(strip(line))
        in_xbrl == IF st.in_xbrl_section /\ any_in(xbrl_stop_indicators, line_lower)
                   THEN FALSE ELSE st.in_xbrl_section
    IN  IF any_in(xbrl_indicators, line_lower)
        THEN [st EXCEPT !.in_xbrl_section = TRUE]
        ELSE IF in_xbrl
        THEN st
        ELSE IF ~st.found_narrative_start /\ any_in(toc_indicators, line_lower)
        THEN [st EXCEPT !.in_xbrl_section = FALSE, !.in_toc_section = TRUE]
        ELSE IF st.in_toc_section
        THEN IF has_digit(line) /\ stripped_len < TocEntryMaxLen
             THEN [st EXCEPT !.in_xbrl_section = FALSE]
             ELSE IF any_in(narrative_indicators, line_lower)
                     /\ stripped_len > NarrativeMinLen
             THEN [st EXCEPT !.in_xbrl_section = FALSE,
                             !.in_toc_section = FALSE,
                             !.found_narrative_start = TRUE,
                             !.cleaned_lines = Append(@, line)]
             ELSE [st EXCEPT !.in_xbrl_section = FALSE]
        ELSE IF st.found_narrative_start
        THEN [st EXCEPT !.in_xbrl_section = FALSE, !.cleaned_lines = Append(@, line)]
        ELSE IF any_in(alternative_indicators, line_lower)
                /\ stripped_len > AlternativeMinLen
        THEN [st EXCEPT !.in_xbrl_section = FALSE,
                        !.found_narrative_start = TRUE,
                        !.cleaned_lines = Append(@, line)]
        ELSE [st EXCEPT !.in_xbrl_section = FALSE]

RECURSIVE preprocess_loop(_, _)
preprocess_loop(st, lines) ==
    IF lines = <<>> THEN st
    ELSE preprocess_loop(preprocess_step(st, Head(lines)), Tail(lines))

\* The position-based approach: the lines from the first qualifying line at
\* or after 20% of the document, or cleaned_lines as it was.
position_based(lines, cleaned_lines) ==
    LET start_pos == Len(lines) \div 5
        stop == IF start_pos + PositionScanLines < Len(lines)
                THEN start_pos + PositionScanLines ELSE Len(lines)
        hits == {i \in start_pos..(stop - 1) :
                    /\ Len(strip(lines[i + 1])) > PositionMinLen
                    /\ any_in(position_words, lower(lines[i + 1]))}
    IN  IF hits = {} THEN cleaned_lines
        ELSE SubSeq(lines, Min(hits) + 1, Len(lines))

\* A faulty variant of preprocess_return: without a narrative start the whole
\* text is kept.
preprocess_return_keeps_all(lines, st) ==
    IF ~st.found_narrative_start THEN join_lines(lines) ELSE join_lines(st.cleaned_lines)

\* After the loop: the position-based approach where it applies, and the join.
preprocess_return(lines, st) ==
    LET cleaned_lines ==
            IF ~st.found_narrative_start
               /\ Len(st.cleaned_lines) < PositionFallbackMaxLines
            THEN position_based(lines, st.cleaned_lines)
            ELSE st.cleaned_lines
    IN  join_lines(cleaned_lines)

\* The flags and cleaned_lines before the loop.
preprocess_start ==
    [in_xbrl_section |-> FALSE, in_toc_section |-> FALSE,
     found_narrative_start |-> FALSE, cleaned_lines |-> <<>>]

preprocess_filing_content(text_content) ==
    LET lines == split_lines(text_content)
    IN  preprocess_return(lines, preprocess_loop(preprocess_start, lines))

(***************************************************************************)
(* re.search for the patterns the parser uses.  A pattern is a sequence of *)
(* items: a literal, a character class or its complement repeated lo..hi   *)
(* times (hi = -1: unbounded), an alternation of two patterns, or \b.      *)
(***************************************************************************)
Lit(s) == [k |-> "lit", s |-> s]

Cls(chars, lo, hi) == [k |-> "cls", chars |-> chars, lo |-> lo, hi |-> hi]

NotCls(chars, lo, hi) == [k |-> "not", chars |-> chars, lo |-> lo, hi |-> hi]

Alt(a, b) == [k |-> "alt", a |-> a, b |-> b]

WordBoundary == [k |-> "wordb"]

LowerSet == {LowerLetters[i] : i \in 1..26}

WordChars == LowerSet \cup {UpperLetters[i] : i \in 1..26} \cup Digits \cup {"_"}

\* The positions reachable from p by lo..hi characters of the class.
re_repeat(item, text, p) ==
    LET ok(c) == IF item.k = "cls" THEN c \in item.chars ELSE c \notin item.chars
        bad == {j \in 1..(Len(text) - p) : ~ok(text[p + j])}
        run == IF bad = {} THEN Len(text) - p ELSE Min(bad) - 1
        most == IF item.hi # -1 /\ item.hi < run THEN item.hi ELSE run
    IN  {p + j : j \in item.lo..most}

is_word_at(text, i) == i >= 1 /\ i <= Len(text) /\ text[i] \in WordChars

RECURSIVE re_ends(_, _, _)
re_item(item, text, P) ==
    CASE item.k = "lit" ->
            {p + Len(item.s) : p \in {q \in P : match_at(text, item.s, q)}}
      [] item.k \in {"cls", "not"} ->
            UNION {re_repeat(item, text, p) : p \in P}
      [] item.k = "alt" ->
            re_ends(item.a, text, P) \cup re_ends(item.b, text, P)
      [] item.k = "wordb" ->
            {p \in P : is_word_at(text, p) # is_word_at(text, p + 1)}

\* The end positions of the matches of pat that start at a position of P.
re_ends(pat, text, P) ==
    IF pat = <<>> \/ P = {} THEN P
    ELSE re_ends(Tail(pat), text, re_item(Head(pat), text, P))

\* re.search(pat, text).start(), or -1
re_search(pat, text) ==
    LET hits == {i \in 0..Len(text) : re_ends(pat, text, {i}) # {}}
    IN  IF hits = {} THEN -1 ELSE Min(hits)

(***************************************************************************)
(* Section content extractor                                               *)
(***************************************************************************)
None == [some |-> FALSE, val |-> <<>>]

Some(v) == [some |-> TRUE, val |-> v]

\* Python truthiness of an Optional[str]
truthy(x) == x.some /\ x.val # <<>>

RECURSIVE int_of(_)
int_of(digits) ==
    IF digits = <<>> THEN 0
    ELSE 10 * int_of(SubSeq(digits, 1, Len(digits) - 1))
         + (CHOOSE d \in 0..9 : <<"0","1","2","3","4","5","6","7","8","9">>[d + 1] = digits[Len(digits)])

\* str.isdigit()
isdigit(s) == s # <<>> /\ \A i \in 1..Len(s) : s[i] \in Digits

BoundaryMinContent == 500

\* A faulty variant of llm_find_section_boundary: any position inside the
\* chunk is taken, however little text it leaves.
llm_find_section_boundary_any_length(chunk, current_section_id, reply) ==
    IF reply.kind # "text" THEN None
    ELSE LET boundary_result == strip(reply.text)
         IN  IF ~isdigit(boundary_result) THEN None
             ELSE LET boundary_pos == int_of(boundary_result)
                  IN  IF 0 < boundary_pos /\ boundary_pos < Len(chunk)
                      THEN Some(strip(slice(chunk, 0, boundary_pos)))
                      ELSE None

\* reply: [kind |-> "raise"], [kind |-> "empty"] (a response without
\* content) or [kind |-> "text", text |-> the first content block's text]
llm_find_section_boundary(chunk, current_section_id, reply) ==
    IF reply.kind # "text" THEN None
    ELSE LET boundary_result == strip(reply.text)
         IN  IF ~isdigit(boundary_result) THEN None
             ELSE LET boundary_pos == int_of(boundary_result)
                      section_content == strip(slice(chunk, 0, boundary_pos))
                  IN  IF /\ 0 < boundary_pos
                         /\ boundary_pos < Len(chunk)
                         /\ Len(section_content) >= BoundaryMinContent
                      THEN Some(section_content)
                      ELSE None

\* The patterns are searched with re.IGNORECASE: they are written in lower
\* case here and searched in the lower-cased text.
next_section_patterns == <<
    << Lit(<<"\n">>), Cls(Whitespace, 0, -1), Lit(<<"i","t","e","m">>), Cls(Whitespace, 1, -1),
       Cls(Digits, 1, -1), Cls(LowerSet, 0, -1), Cls({"."}, 0, 1),
       Cls(Whitespace, 0, -1), Cls(LowerSet \cup Whitespace, 1, -1), Lit(<<"\n">>) >>,
    << Lit(<<"\n">>), Cls(Whitespace, 0, -1), Lit(<<"i","t","e","m">>), Cls(Whitespace, 1, -1),
       Cls(Digits, 1, -1), Cls(LowerSet, 0, -1), Cls({"."}, 0, 1),
       Cls(Whitespace, 0, -1), Cls(LowerSet \cup Whitespace, 1, -1), Lit(<<"\n">>) >>,
    << Lit(<<"\n">>), Cls(Whitespace, 0, -1), Lit(<<"p","a","r","t">>), Cls(Whitespace, 1, -1),
       Alt(<<Cls({"i"}, 1, 4)>>, <<Cls({"1", "2", "3", "4"}, 1, 1)>>),
       Cls(Whitespace, 0, -1), Lit(<<"\n">>) >>,
    << Lit(<<"\n">>), Cls(Whitespace, 0, -1), Lit(<<"p","a","r","t">>), Cls(Whitespace, 1, -1),
       Alt(<<Cls({"i"}, 1, 4)>>, <<Cls({"1", "2", "3", "4"}, 1, 1)>>),
       Cls(Whitespace, 0, -1), Lit(<<"\n">>) >>,
    << Lit(<<"\n">>), Cls(Whitespace, 0, -1), Lit(<<"s","i","g","n","a","t","u","r","e","s">>),
       Cls(Whitespace, 0, -1), Lit(<<"\n">>) >>,
    << Lit(<<"<">>), NotCls({">"}, 0, -1), Lit(<<">">>), Cls(Whitespace, 0, -1),
       Lit(<<"i","t","e","m">>), Cls(Whitespace, 1, -1), Cls(Digits, 1, -1),
       Cls(LowerSet, 0, -1) >>,
    << Lit(<<"<">>), NotCls({">"}, 0, -1), Lit(<<">">>), Cls(Whitespace, 0, -1),
       Lit(<<"i","t","e","m">>), Cls(Whitespace, 1, -1), Cls(Digits, 1, -1),
       Cls(LowerSet, 0, -1) >> >>

BoundarySearchOffset == 500

RegexMinContent == 100

RegexShortSlice == 5000

\* A faulty variant of regex_find_section_boundary: the patterns are searched
\* from the start of the chunk.
regex_find_section_boundary_from_start(chunk, section_id) ==
    LET search_text == lower(chunk)
        starts == {re_search(next_section_patterns[k], search_text) :
                       k \in 1..Len(next_section_patterns)} \ {-1}
        min_end_pos == Min({Len(chunk)} \cup starts)
        section_content == strip(slice(chunk, 0, min_end_pos))
    IN  IF Len(section_content) >= RegexMinContent
        THEN Some(section_content)
        ELSE Some(strip(slice(chunk, 0, RegexShortSlice)))

regex_find_section_boundary(chunk, section_id) ==
    LET search_text == lower(slice(chunk, BoundarySearchOffset, Len(chunk)))
        starts == {re_search(next_section_patterns[k], search_text) :
                       k \in 1..Len(next_section_patterns)} \ {-1}
        min_end_pos == Min({Len(chunk)} \cup {BoundarySearchOffset + s : s \in starts})
        section_content == strip(slice(chunk, 0, min_end_pos))
    IN  IF Len(section_content) >= RegexMinContent
        THEN Some(section_content)
        ELSE Some(strip(slice(chunk, 0, RegexShortSlice)))

s_item_1 == <<"i","t","e","m","_","1">>

s_item_1a == <<"i","t","e","m","_","1","a">>

s_item_7 == <<"i","t","e","m","_","7">>

s_item_8 == <<"i","t","e","m","_","8">>

\* section_patterns.get(section_id, [])
section_patterns(section_id) ==
    CASE section_id = s_item_1a ->
            << << Lit(<<"i","t","e","m">>), Cls(Whitespace, 1, -1), Lit(<<"1","a">>) >>,
               << Lit(<<"r","i","s","k">>), Cls(Whitespace, 1, -1), Lit(<<"f","a","c","t","o","r","s">>) >> >>
      [] section_id = s_item_7 ->
            << << Lit(<<"i","t","e","m">>), Cls(Whitespace, 1, -1), Lit(<<"7">>) >>,
               << Lit(<<"m","a","n","a","g","e","m","e","n","t">>), NotCls({"\n"}, 0, -1), Lit(<<"d","i","s","c","u","s","s","i","o","n">>),
                  NotCls({"\n"}, 0, -1), Lit(<<"a","n","a","l","y","s","i","s">>) >>,
               << Lit(<<"m","d","&","a">>) >> >>
      [] section_id = s_item_1 ->
            << << Lit(<<"i","t","e","m">>), Cls(Whitespace, 1, -1), Lit(<<"1">>), NotCls(LowerSet, 1, 1) >>,
               << WordBoundary, Lit(<<"b","u","s","i","n","e","s","s">>), WordBoundary >> >>
      [] section_id = s_item_8 ->
            << << Lit(<<"i","t","e","m">>), Cls(Whitespace, 1, -1), Lit(<<"8">>) >>,
               << Lit(<<"f","i","n","a","n","c","i","a","l">>), Cls(Whitespace, 1, -1), Lit(<<"s","t","a","t","e","m","e","n","t","s">>) >> >>
      [] OTHER -> <<>>

HintPrefixLen == 50

SectionWindow == 50000

LlmBoundaryMinWindow == 1000

PatternSlice == 15000

PrefixSlice == 10000

\* A faulty variant of extract_by_patterns: without a matching pattern
\* nothing is returned.
extract_by_patterns_or_nothing(chunk, section_id) ==
    LET pats == section_patterns(section_id)
        found == {k \in 1..Len(pats) : re_search(pats[k], lower(chunk)) # -1}
    IN  IF found # {}
        THEN LET start_pos == re_search(pats[Min(found)], lower(chunk))
             IN  strip(slice(chunk, start_pos, start_pos + PatternSlice))
        ELSE <<>>

\* The fallbacks after the start hint: the first section pattern that
\* matches, else a prefix of the chunk.
extract_by_patterns(chunk, section_id) ==
    LET pats == section_patterns(section_id)
        found == {k \in 1..Len(pats) : re_search(pats[k], lower(chunk)) # -1}
    IN  IF found # {}
        THEN LET start_pos == re_search(pats[Min(found)], lower(chunk))
             IN  strip(slice(chunk, start_pos, start_pos + PatternSlice))
        ELSE strip(slice(chunk, 0, PrefixSlice))

\* has_client: self.anthropic_client is set; reply: the boundary oracle's
\* reply, used only if the oracle is called.
extract_section_content_from_chunk(chunk, section_info, has_client, reply) ==
    LET content_start_hint == section_info.content_start
        section_id == section_info.section_id
        start_pos == find(lower(chunk), slice(lower(content_start_hint), 0, HintPrefixLen), 0)
        chunk_from_start == slice(chunk, start_pos, start_pos + SectionWindow)
        by_llm == IF has_client /\ Len(chunk_from_start) > LlmBoundaryMinWindow
                  THEN llm_find_section_boundary(chunk_from_start, section_id, reply)
                  ELSE None
        by_regex == regex_find_section_boundary(chunk_from_start, section_id)
    IN  IF content_start_hint # <<>> /\ start_pos # -1
        THEN IF truthy(by_llm) THEN by_llm.val
             ELSE IF truthy(by_regex) THEN by_regex.val
             ELSE extract_by_patterns(chunk, section_id)
        ELSE extract_by_patterns(chunk, section_id)

(***************************************************************************)
(* The static outline and the result tree                                  *)
(***************************************************************************)
s_part_1 == <<"p","a","r","t","_","1">>

s_part_2 == <<"p","a","r","t","_","2">>

s_part_3 == <<"p","a","r","t","_","3">>

s_part_4 == <<"p","a","r","t","_","4">>

s_signatures == <<"s","i","g","n","a","t","u","r","e","s">>

\* self.FORM_10K_STRUCTURE: the parts in order, each with its items in order
\* (id, title, purpose); the top-level "signatures" entry has no sections.
FORM_10K_STRUCTURE == <<
    [key |-> s_part_1, sections |-> <<
        [id |-> <<"i","t","e","m","_","1">>,  title |-> <<"B","u","s","i","n","e","s","s">>, purpose |-> <<"C","o","m","p","a","n","y"," ","o","p","e","r","a","t","i","o","n","s"," ","a","n","d"," ","s","t","r","a","t","e","g","y">>],
        [id |-> <<"i","t","e","m","_","1","a">>, title |-> <<"R","i","s","k"," ","F","a","c","t","o","r","s">>, purpose |-> <<"M","a","t","e","r","i","a","l"," ","r","i","s","k","s">>],
        [id |-> <<"i","t","e","m","_","1","b">>, title |-> <<"U","n","r","e","s","o","l","v","e","d"," ","S","t","a","f","f"," ","C","o","m","m","e","n","t","s">>, purpose |-> <<"S","E","C"," ","c","o","m","m","e","n","t","s">>],
        [id |-> <<"i","t","e","m","_","1","c">>, title |-> <<"C","y","b","e","r","s","e","c","u","r","i","t","y">>, purpose |-> <<"C","y","b","e","r"," ","r","i","s","k"," ","m","a","n","a","g","e","m","e","n","t">>],
        [id |-> <<"i","t","e","m","_","2">>,  title |-> <<"P","r","o","p","e","r","t","i","e","s">>, purpose |-> <<"P","h","y","s","i","c","a","l"," ","a","s","s","e","t","s">>],
        [id |-> <<"i","t","e","m","_","3">>,  title |-> <<"L","e","g","a","l"," ","P","r","o","c","e","e","d","i","n","g","s">>, purpose |-> <<"M","a","t","e","r","i","a","l"," ","l","i","t","i","g","a","t","i","o","n">>],
        [id |-> <<"i","t","e","m","_","4">>,  title |-> <<"M","i","n","e"," ","S","a","f","e","t","y"," ","D","i","s","c","l","o","s","u","r","e","s">>, purpose |-> <<"M","i","n","i","n","g"," ","s","a","f","e","t","y"," ","(","i","f"," ","a","p","p","l","i","c","a","b","l","e",")">>] >>],
    [key |-> s_part_2, sections |-> <<
        [id |-> <<"i","t","e","m","_","5">>,  title |-> <<"M","a","r","k","e","t"," ","f","o","r"," ","C","o","m","m","o","n"," ","E","q","u","i","t","y">>, purpose |-> <<"S","t","o","c","k"," ","a","n","d"," ","s","h","a","r","e","h","o","l","d","e","r"," ","i","n","f","o">>],
        [id |-> <<"i","t","e","m","_","6">>,  title |-> <<"R","e","s","e","r","v","e","d">>, purpose |-> <<"R","e","s","e","r","v","e","d"," ","s","e","c","t","i","o","n">>],
        [id |-> <<"i","t","e","m","_","7">>,  title |-> <<"M","a","n","a","g","e","m","e","n","t","'","s"," ","D","i","s","c","u","s","s","i","o","n"," ","a","n","d"," ","A","n","a","l","y","s","i","s">>, purpose |-> <<"F","i","n","a","n","c","i","a","l"," ","p","e","r","f","o","r","m","a","n","c","e"," ","a","n","a","l","y","s","i","s">>],
        [id |-> <<"i","t","e","m","_","7","a">>, title |-> <<"M","a","r","k","e","t"," ","R","i","s","k"," ","D","i","s","c","l","o","s","u","r","e","s">>, purpose |-> <<"M","a","r","k","e","t"," ","r","i","s","k"," ","e","x","p","o","s","u","r","e">>],
        [id |-> <<"i","t","e","m","_","8">>,  title |-> <<"F","i","n","a","n","c","i","a","l"," ","S","t","a","t","e","m","e","n","t","s">>, purpose |-> <<"A","u","d","i","t","e","d"," ","f","i","n","a","n","c","i","a","l","s">>],
        [id |-> <<"i","t","e","m","_","9">>,  title |-> <<"C","h","a","n","g","e","s"," ","i","n"," ","A","c","c","o","u","n","t","a","n","t","s">>, purpose |-> <<"A","u","d","i","t","o","r"," ","c","h","a","n","g","e","s">>],
        [id |-> <<"i","t","e","m","_","9","a">>, title |-> <<"C","o","n","t","r","o","l","s"," ","a","n","d"," ","P","r","o","c","e","d","u","r","e","s">>, purpose |-> <<"I","n","t","e","r","n","a","l"," ","c","o","n","t","r","o","l","s">>],
        [id |-> <<"i","t","e","m","_","9","b">>, title |-> <<"O","t","h","e","r"," ","I","n","f","o","r","m","a","t","i","o","n">>, purpose |-> <<"A","d","d","i","t","i","o","n","a","l"," ","d","i","s","c","l","o","s","u","r","e","s">>],
        [id |-> <<"i","t","e","m","_","9","c">>, title |-> <<"F","o","r","e","i","g","n"," ","J","u","r","i","s","d","i","c","t","i","o","n"," ","I","n","s","p","e","c","t","i","o","n","s">>, purpose |-> <<"A","u","d","i","t"," ","i","n","s","p","e","c","t","i","o","n"," ","i","s","s","u","e","s">>] >>],
    [key |-> s_part_3, sections |-> <<
        [id |-> <<"i","t","e","m","_","1","0">>, title |-> <<"D","i","r","e","c","t","o","r","s"," ","a","n","d"," ","O","f","f","i","c","e","r","s">>, purpose |-> <<"L","e","a","d","e","r","s","h","i","p"," ","i","n","f","o","r","m","a","t","i","o","n">>],
        [id |-> <<"i","t","e","m","_","1","1">>, title |-> <<"E","x","e","c","u","t","i","v","e"," ","C","o","m","p","e","n","s","a","t","i","o","n">>, purpose |-> <<"P","a","y"," ","d","i","s","c","l","o","s","u","r","e","s">>],
        [id |-> <<"i","t","e","m","_","1","2">>, title |-> <<"S","e","c","u","r","i","t","y"," ","O","w","n","e","r","s","h","i","p">>, purpose |-> <<"S","t","o","c","k"," ","o","w","n","e","r","s","h","i","p">>],
        [id |-> <<"i","t","e","m","_","1","3">>, title |-> <<"R","e","l","a","t","e","d"," ","T","r","a","n","s","a","c","t","i","o","n","s">>, purpose |-> <<"R","e","l","a","t","e","d"," ","p","a","r","t","y"," ","d","e","a","l","s">>],
        [id |-> <<"i","t","e","m","_","1","4">>, title |-> <<"A","c","c","o","u","n","t","a","n","t"," ","F","e","e","s">>, purpose |-> <<"A","u","d","i","t","o","r"," ","c","o","m","p","e","n","s","a","t","i","o","n">>] >>],
    [key |-> s_part_4, sections |-> <<
        [id |-> <<"i","t","e","m","_","1","5">>, title |-> <<"E","x","h","i","b","i","t","s"," ","a","n","d"," ","S","c","h","e","d","u","l","e","s">>, purpose |-> <<"D","o","c","u","m","e","n","t"," ","i","n","d","e","x">>],
        [id |-> <<"i","t","e","m","_","1","6">>, title |-> <<"F","o","r","m"," ","1","0","-","K"," ","S","u","m","m","a","r","y">>, purpose |-> <<"O","p","t","i","o","n","a","l"," ","s","u","m","m","a","r","y">>] >>],
    [key |-> s_signatures, sections |-> <<>>] >>

\* The purpose of section_id in the first part that lists it, else "".
get_section_description(section_id) ==
    LET hits == {<<p, k>> \in (1..Len(FORM_10K_STRUCTURE)) \X (1..9) :
                    /\ k <= Len(FORM_10K_STRUCTURE[p].sections)
                    /\ FORM_10K_STRUCTURE[p].sections[k].id = section_id}
    IN  IF hits = {} THEN <<>>
        ELSE LET h == CHOOSE x \in hits : \A y \in hits : x[1] <= y[1]
             IN  FORM_10K_STRUCTURE[h[1]].sections[h[2]].purpose

get_section_purpose(section_id) == get_section_description(section_id)

\* A value of the result tree is a dict (its entries [key, value] in
\* insertion order) or a FilingSection object.
Dict(entries) == [t |-> "dict", entries |-> entries]

Obj(section) == [t |-> "FilingSection", section |-> section]

\* key in d
dict_has(d, key) == \E k \in 1..Len(d.entries) : d.entries[k].key = key

\* d[key]
dict_get(d, key) == d.entries[CHOOSE k \in 1..Len(d.entries) : d.entries[k].key = key].value

\* d[key] = value: an existing key keeps its place.
dict_set(d, key, value) ==
    IF dict_has(d, key)
    THEN Dict([k \in 1..Len(d.entries) |->
                  IF d.entries[k].key = key THEN [key |-> key, value |-> value]
                  ELSE d.entries[k]])
    ELSE Dict(Append(d.entries, [key |-> key, value |-> value]))

s_subsections == <<"s","u","b","s","e","c","t","i","o","n","s">>

s_section == <<"s","e","c","t","i","o","n">>

\* The dataclass FilingSection (page_range and subsections keep their
\* default None).
FilingSection(section_id, title, description, purpose, content, visual_elements, key_contents) ==
    [section_id |-> section_id, title |-> title, description |-> description,
     purpose |-> purpose, content |-> content, visual_elements |-> visual_elements,
     key_contents |-> key_contents]

(***************************************************************************)
(* Visual elements.  The document tree is the sequence of its elements in  *)
(* document order: [name, text, rows], rows being the cell texts of a      *)
(* table's rows.                                                           *)
(***************************************************************************)
\* _extract_table_text: the rows' stripped cells joined by " | ", the first
\* 20 non-blank rows joined by newlines.
RECURSIVE join_cells(_)
join_cells(cells) ==
    IF cells = <<>> THEN <<>>
    ELSE IF Len(cells) = 1 THEN strip(cells[1])
    ELSE strip(cells[1]) \o <<" ","|"," ">> \o join_cells(Tail(cells))

TableTextMaxRows == 20

extract_table_text(table) ==
    LET row_texts == [k \in 1..Len(table.rows) |-> join_cells(table.rows[k])]
        table_data == SelectSeq(row_texts, LAMBDA r : strip(r) # <<>>)
    IN  join_lines(SubSeq(table_data, 1,
                          IF Len(table_data) < TableTextMaxRows
                          THEN Len(table_data) ELSE TableTextMaxRows))

count_in(keywords, text) == Cardinality({k \in 1..Len(keywords) : contains(keywords[k], text)})

section_keywords(section_id) ==
    CASE section_id = s_item_1a -> << <<"r","i","s","k">>, <<"f","a","c","t","o","r">>, <<"e","x","p","o","s","u","r","e">>, <<"i","m","p","a","c","t">> >>
      [] section_id = s_item_1 ->
            << <<"b","u","s","i","n","e","s","s">>, <<"o","p","e","r","a","t","i","o","n">>, <<"p","r","o","d","u","c","t">>, <<"s","e","r","v","i","c","e">>, <<"c","o","v","e","r","a","g","e">> >>
      [] section_id = s_item_7 ->
            << <<"y","e","a","r"," ","e","n","d","e","d">>, <<"d","e","c","e","m","b","e","r">>, <<"m","i","l","l","i","o","n">>, <<"i","n","c","o","m","e">>, <<"r","e","v","e","n","u","e">>, <<"e","x","p","e","n","s","e">>,
               <<"p","r","i","o","r"," ","a","c","c","i","d","e","n","t">>, <<"d","e","v","e","l","o","p","m","e","n","t">>, <<"c","a","t","a","s","t","r","o","p","h","e">>, <<"l","o","s","s">>, <<"r","a","t","i","o">>,
               <<"p","r","e","m","i","u","m">> >>
      [] section_id = <<"i","t","e","m","_","5">> ->
            << <<"s","h","a","r","e">>, <<"s","t","o","c","k">>, <<"d","i","v","i","d","e","n","d">>, <<"r","e","p","u","r","c","h","a","s","e">>, <<"m","a","r","k","e","t">> >>
      [] section_id = s_item_8 ->
            << <<"b","a","l","a","n","c","e"," ","s","h","e","e","t">>, <<"s","t","a","t","e","m","e","n","t">>, <<"c","a","s","h"," ","f","l","o","w">>, <<"e","q","u","i","t","y">> >>
      [] OTHER -> <<>>

RelevantMinKeywords == 2

\* A faulty variant of is_section_relevant_table: no section keywords are
\* asked of the table.
is_section_relevant_table_for_any(table_text, section_id) ==
    LET text_lower == lower(table_text)
    IN  ~(contains(<<"t","r","a","d","i","n","g"," ","s","y","m","b","o","l">>, text_lower)
          /\ contains(<<"n","e","w"," ","y","o","r","k"," ","s","t","o","c","k"," ","e","x","c","h","a","n","g","e">>, text_lower))

is_section_relevant_table(table_text, section_id) ==
    LET text_lower == lower(table_text)
        relevant_keywords == section_keywords(section_id)
    IN  IF contains(<<"t","r","a","d","i","n","g"," ","s","y","m","b","o","l">>, text_lower)
           /\ contains(<<"n","e","w"," ","y","o","r","k"," ","s","t","o","c","k"," ","e","x","c","h","a","n","g","e">>, text_lower)
        THEN FALSE
        ELSE IF relevant_keywords = <<>> THEN TRUE
        ELSE count_in(relevant_keywords, text_lower) >= RelevantMinKeywords

financial_keywords ==
    << <<"m","i","l","l","i","o","n">>, <<"b","i","l","l","i","o","n">>, <<"t","h","o","u","s","a","n","d">>, <<"$">>, <<"p","e","r","c","e","n","t">>, <<"%">>,
       <<"r","e","v","e","n","u","e">>, <<"i","n","c","o","m","e">>, <<"l","o","s","s">>, <<"a","s","s","e","t","s">>, <<"l","i","a","b","i","l","i","t","i","e","s">>,
       <<"r","a","t","i","o">>, <<"p","r","e","m","i","u","m">>, <<"c","l","a","i","m">>, <<"u","n","d","e","r","w","r","i","t","i","n","g">>, <<"i","n","v","e","s","t","m","e","n","t">>,
       <<"y","e","a","r"," ","e","n","d","e","d">>, <<"d","e","c","e","m","b","e","r">>, <<"q","u","a","r","t","e","r">>, <<"f","i","s","c","a","l">> >>

skip_phrases ==
    << <<"a","n","n","u","a","l"," ","r","e","p","o","r","t"," ","p","u","r","s","u","a","n","t">>, <<"s","e","c","u","r","i","t","i","e","s"," ","e","x","c","h","a","n","g","e"," ","a","c","t">>, <<"c","h","e","c","k"," ","o","n","e">>,
       <<"c","o","m","m","i","s","s","i","o","n"," ","f","i","l","e"," ","n","u","m","b","e","r">> >>

MeaningfulMinLen == 50

MeaningfulMinLines == 3

MeaningfulMinKeywords == 2

is_meaningful_table(table_text) ==
    LET lines == split_lines(table_text)
        non_empty_lines == SelectSeq(lines, LAMBDA l : strip(l) # <<>> /\ strip(l) # <<"|">>)
        text_lower == lower(table_text)
    IN  IF Len(table_text) < MeaningfulMinLen THEN FALSE
        ELSE IF Len(non_empty_lines) < MeaningfulMinLines THEN FALSE
        ELSE IF any_in(skip_phrases, text_lower) THEN FALSE
        ELSE count_in(financial_keywords, text_lower) >= MeaningfulMinKeywords

DescribeFallbackLen == 100

\* reply: [kind |-> "raise"], [kind |-> "empty"] or
\* [kind |-> "text", text |-> ...]; element_type is 'table' at this call site.
describe_visual_element(element_type_title, content_sample, has_client, reply) ==
    IF has_client /\ reply.kind = "text"
    THEN strip(reply.text)
    ELSE element_type_title \o <<":"," ">> \o slice(content_sample, 0, DescribeFallbackLen) \o <<".",".",".">>

\* The dataclass VisualElement (page_number and image_data are None).
VisualElement(section_id, section_title, element_type, description, context, extracted_text) ==
    [section_id |-> section_id, section_title |-> section_title,
     element_type |-> element_type, description |-> description,
     context |-> context, extracted_text |-> extracted_text]

\* s.split('_')[1] for an s that contains '_'
second_field(s) ==
    LET first == find(s, <<"_">>, 0)
        rest == slice(s, first + 1, Len(s))
        nxt == find(rest, <<"_">>, 0)
    IN  IF nxt = -1 THEN rest ELSE slice(rest, 0, nxt)

HeaderNames == {"h1", "h2", "h3", "h4", "div", "span", "p"}

MajorHeadingNames == {"h1", "h2", "h3"}

HeaderMaxLen == 200

TraversalBudget == 2000

MaxTablesPerSection == 3

\* What find_next() walks: every element, a table followed by its rows and
\* cells.
RECURSIVE row_cells(_)
row_cells(rows) ==
    IF rows = <<>> THEN <<>>
    ELSE <<[name |-> "tr", text |-> <<>>, rows |-> <<>>]>>
         \o [k \in 1..Len(Head(rows)) |-> [name |-> "td", text |-> <<>>, rows |-> <<>>]]
         \o row_cells(Tail(rows))

RECURSIVE all_elements(_)
all_elements(soup) ==
    IF soup = <<>> THEN <<>>
    ELSE <<Head(soup)>> \o row_cells(Head(soup).rows) \o all_elements(Tail(soup))

\* The index in all_elements(soup) of the section's header, or 0: the first
\* header matching the first pattern, else the first matching the second.
section_start_element(elements, section_id, section_title) ==
    LET section_patterns_ ==
            << IF contains(<<"i","t","e","m","_">>, section_id)
               THEN <<"i","t","e","m"," ">> \o second_field(section_id) ELSE section_id,
               lower(section_title) >>
        matches(k) == {e \in 1..Len(elements) :
                          /\ elements[e].name \in HeaderNames
                          /\ contains(lower(section_patterns_[k]), lower(elements[e].text))
                          /\ Len(elements[e].text) < HeaderMaxLen}
    IN  IF matches(1) # {} THEN Min(matches(1))
        ELSE IF matches(2) # {} THEN Min(matches(2))
        ELSE 0

is_next_major_section(element) ==
    /\ element.name \in MajorHeadingNames
    /\ element.text # <<>>
    /\ any_in(<< <<"i","t","e","m"," ">>, <<"p","a","r","t"," ">>, <<"s","i","g","n","a","t","u","r","e","s">> >>, lower(element.text))
    /\ Len(element.text) < HeaderMaxLen

s_table == <<"t","a","b","l","e">>

digit_str(n) == <<<<"0","1","2","3","4","5","6","7","8","9">>[n + 1]>>

\* The forward traversal from position at, with budget steps left;
\* replies[k] answers the description request for the k-th accepted table.
RECURSIVE collect_tables(_, _, _, _, _, _, _, _)
collect_tables(elements, at, budget, found, section_id, section_title, has_client, replies) ==
    IF budget = 0 \/ at > Len(elements) THEN found
    ELSE LET current_element == elements[at]
             table_text == extract_table_text(current_element)
         IN  IF is_next_major_section(current_element) THEN found
             ELSE IF /\ current_element.name = "table"
                     /\ Len(current_element.rows) >= 3
                     /\ is_meaningful_table(table_text)
                     /\ is_section_relevant_table(table_text, section_id)
             THEN LET tables_found == Len(found)
                      description ==
                          describe_visual_element(<<"T","a","b","l","e">>, slice(table_text, 0, 1000),
                                                  has_client, replies[tables_found + 1])
                      visual_element ==
                          VisualElement(section_id \o <<"_","t","a","b","l","e","_">> \o digit_str(tables_found),
                                        section_title, s_table, description,
                                        <<"F","o","u","n","d"," ","i","n"," ">> \o section_title, table_text)
                      found_ == Append(found, visual_element)
                  IN  IF Len(found_) >= MaxTablesPerSection THEN found_
                      ELSE collect_tables(elements, at + 1, budget - 1, found_,
                                          section_id, section_title, has_client, replies)
             ELSE collect_tables(elements, at + 1, budget - 1, found,
                                 section_id, section_title, has_client, replies)

find_visuals_for_section(soup, section_id, section_title, has_client, replies) ==
    LET elements == all_elements(soup)
        start == section_start_element(elements, section_id, section_title)
    IN  IF start = 0 THEN <<>>
        ELSE collect_tables(elements, start + 1, TraversalBudget, <<>>,
                            section_id, section_title, has_client, replies)

(***************************************************************************)
(* Parsing                                                                 *)
(***************************************************************************)
FallbackChunk == 50000

s_mda_title == <<"M","a","n","a","g","e","m","e","n","t","'","s"," ","D","i","s","c","u","s","s","i","o","n"," ","a","n","d"," ","A","n","a","l","y","s","i","s">>

fallback_parse_structure(text_content) ==
    LET mda_start == find(lower(text_content), <<"m","a","n","a","g","e","m","e","n","t","'","s"," ","d","i","s","c","u","s","s","i","o","n"," ","a","n","d"," ","a","n","a","l","y","s","i","s">>, 0)
        found_end == find(lower(text_content), <<"f","i","n","a","n","c","i","a","l"," ","s","t","a","t","e","m","e","n","t","s">>, mda_start)
        mda_end == IF found_end = -1 THEN mda_start + FallbackChunk ELSE found_end
        mda_content == slice(text_content, mda_start, mda_end)
        filing_section ==
            FilingSection(s_item_7, s_mda_title,
                          <<"M","a","n","a","g","e","m","e","n","t","'","s"," ","a","n","a","l","y","s","i","s"," ","o","f"," ","f","i","n","a","n","c","i","a","l"," ","p","e","r","f","o","r","m","a","n","c","e">>,
                          <<"F","i","n","a","n","c","i","a","l"," ","p","e","r","f","o","r","m","a","n","c","e"," ","a","n","a","l","y","s","i","s">>, mda_content, <<>>, <<>>)
    IN  IF mda_start = -1 THEN Dict(<<>>)
        ELSE Dict(<< [key |-> s_part_2, value |-> Dict(<<
                 [key |-> s_subsections, value |-> Dict(<<
                     [key |-> s_item_7, value |-> Dict(<<
                         [key |-> s_section, value |-> Obj(filing_section)] >>)] >>)] >>)] >>)

\* The bullet that starts each visual summary line (a non-ASCII character
\* in the source).
Bullet == "*"

RECURSIVE visual_summary_lines(_)
visual_summary_lines(visuals) ==
    IF visuals = <<>> THEN <<>>
    ELSE <<<<Bullet, " ">> \o Head(visuals).description>>
         \o visual_summary_lines(Tail(visuals))

\* parsed_sections[part_id]["subsections"][section_id] = {"section": filing_section},
\* creating parsed_sections[part_id] first if it is missing.
store_section(parsed_sections, part_id, section_id, filing_section) ==
    LET with_part ==
            IF dict_has(parsed_sections, part_id) THEN parsed_sections
            ELSE dict_set(parsed_sections, part_id,
                          Dict(<<[key |-> s_subsections, value |-> Dict(<<>>)]>>))
        part == dict_get(with_part, part_id)
        subsections == dict_set(dict_get(part, s_subsections), section_id,
                                Dict(<<[key |-> s_section, value |-> Obj(filing_section)]>>))
    IN  dict_set(with_part, part_id, dict_set(part, s_subsections, subsections))

\* The FilingSection made of the extracted content and the visuals found.
make_filing_section(section_info, section_content, section_visuals) ==
    FilingSection(section_info.section_id, section_info.title,
                  get_section_description(section_info.section_id),
                  get_section_purpose(section_info.section_id),
                  IF section_visuals # <<>>
                  THEN section_content \o <<"\n","\n","[","V","I","S","U","A","L"," ","C","O","N","T","E","N","T","]","\n">>
                       \o join_lines(visual_summary_lines(section_visuals))
                  ELSE section_content,
                  section_visuals, section_info.contains_key_info)

\* if section_content: ... FilingSection(...)
section_of_content(section_info, section_content, soup, script) ==
    IF section_content = <<>> THEN None
    ELSE Some(make_filing_section(
                  section_info, section_content,
                  find_visuals_for_section(soup, section_info.section_id,
                                           section_info.title, TRUE, script.describe)))

\* The body of the loop over chunk_analysis.sections_found up to the store:
\* the FilingSection built for one SectionFound of a chunk, or None when no
\* content is extracted.  script: the replies of the boundary oracle and of
\* the description oracle during this section.
build_section(chunk, section_info, soup, script) ==
    section_of_content(
        section_info,
        extract_section_content_from_chunk(chunk, section_info, TRUE, script.boundary),
        soup, script)

(***************************************************************************)
(* Query interface.  An outcome is [kind |-> "value", value |-> a tree     *)
(* value], [kind |-> "none"] (None) or [kind |-> "raise", exc |-> ...].    *)
(***************************************************************************)
Returned(value) == [kind |-> "value", value |-> value, exc |-> "none"]

ReturnedNone == [kind |-> "none", value |-> Dict(<<>>), exc |-> "none"]

Raised(exc) == [kind |-> "raise", value |-> Dict(<<>>), exc |-> exc]

\* s.split('.')
RECURSIVE split_dots(_)
split_dots(s) ==
    LET dot == find(s, <<".">>, 0)
    IN  IF dot = -1 THEN <<s>>
        ELSE <<slice(s, 0, dot)>> \o split_dots(slice(s, dot + 1, Len(s)))

\* The loop over the path's parts; current is a tree value.  `in` on a
\* FilingSection raises TypeError.
RECURSIVE walk_path(_, _)
walk_path(current, parts) ==
    IF parts = <<>>
    THEN IF current.t = "dict" /\ dict_has(current, s_section)
         THEN Returned(dict_get(current, s_section))
         ELSE ReturnedNone
    ELSE IF current.t # "dict" THEN Raised("TypeError")
    ELSE IF ~dict_has(current, Head(parts)) THEN ReturnedNone
    ELSE LET next == dict_get(current, Head(parts))
         IN  IF next.t # "dict" THEN Raised("TypeError")
             ELSE IF dict_has(next, s_subsections)
             THEN walk_path(dict_get(next, s_subsections), Tail(parts))
             ELSE walk_path(next, Tail(parts))

get_section_by_internal_path(parsed_filing, internal_path) ==
    walk_path(parsed_filing.structure, split_dots(internal_path))

\* str.replace(old, new) for a non-empty old
RECURSIVE replace(_, _, _)
replace(s, old, new) ==
    LET at == find(s, old, 0)
    IN  IF at = -1 THEN s
        ELSE slice(s, 0, at) \o new \o replace(slice(s, at + Len(old), Len(s)), old, new)

\* path.lower() and the chain of replacements, in the order of the source.
normalise_path(path) ==
    replace(replace(replace(replace(replace(replace(replace(
        lower(path),
        <<"p","a","r","t","1">>, <<"p","a","r","t","_","1">>),
        <<"p","a","r","t","i">>, <<"p","a","r","t","_","1">>),
        <<"p","a","r","t","2">>, <<"p","a","r","t","_","2">>),
        <<"p","a","r","t","i","i">>, <<"p","a","r","t","_","2">>),
        <<"i","t","e","m","1","a">>, <<"i","t","e","m","_","1","a">>),
        <<"i","t","e","m","7">>, <<"i","t","e","m","_","7">>),
        <<"i","t","e","m","1">>, <<"i","t","e","m","_","1">>)

fallback_path_lookup(parsed_filing, path) ==
    get_section_by_internal_path(parsed_filing, normalise_path(path))

join_path(current_path, key) ==
    IF current_path # <<>> THEN current_path \o <<".">> \o key ELSE key

is_section_entry(value) ==
    /\ dict_has(value, s_section)
    /\ dict_get(value, s_section).t = "FilingSection"

\* collect_paths: the internal paths of the FilingSections of the tree, in
\* traversal order.
RECURSIVE collect_paths(_, _)
collect_entry_paths(current_path, entry) ==
    LET new_path == join_path(current_path, entry.key)
        value == entry.value
    IN  IF value.t # "dict" THEN <<>>
        ELSE (IF is_section_entry(value) THEN <<new_path>> ELSE <<>>)
             \o (IF dict_has(value, s_subsections)
                 THEN collect_paths(new_path, dict_get(value, s_subsections))
                 ELSE <<>>)

collect_paths(current_path, structure) ==
    concat([k \in 1..Len(structure.entries) |->
               collect_entry_paths(current_path, structure.entries[k])])

s_not_found == <<"N","O","T","_","F","O","U","N","D">>

\* The try block of get_section_by_path on a reply with content: the
\* section at the mapped path, or the fallback when the reply is blank or
\* NOT_FOUND or the lookup of the mapped path raises.
lookup_mapped_path(parsed_filing, path, mapped_path) ==
    IF /\ mapped_path # <<>>
       /\ mapped_path # s_not_found
       /\ get_section_by_internal_path(parsed_filing, mapped_path).kind # "raise"
    THEN get_section_by_internal_path(parsed_filing, mapped_path)
    ELSE fallback_path_lookup(parsed_filing, path)

\* has_client: self.anthropic_client is set; reply: the path-mapping
\* oracle's reply, one of kind "raise" (the call raises), "empty" (no
\* content) or "text".
get_section_by_path(parsed_filing, path, has_client, reply) ==
    IF ~has_client THEN fallback_path_lookup(parsed_filing, path)
    ELSE IF collect_paths(<<>>, parsed_filing.structure) = <<>> THEN ReturnedNone
    ELSE IF reply.kind = "text"
    THEN lookup_mapped_path(parsed_filing, path, strip(reply.text))
    ELSE fallback_path_lookup(parsed_filing, path)

\* A faulty variant of matches_keywords: neither side is lower-cased.
matches_keywords_case_sensitive(section, keywords) ==
    \E k \in 1..Len(keywords) : contains(keywords[k], section.content)

\* any keyword.lower() in content.lower()
matches_keywords(section, keywords) ==
    \E k \in 1..Len(keywords) : contains(lower(keywords[k]), lower(section.content))

\* search_structure: the (path, section) pairs in traversal order.
RECURSIVE search_structure(_, _, _)
search_entry(current_path, entry, keywords) ==
    LET new_path == join_path(current_path, entry.key)
        value == entry.value
    IN  IF value.t # "dict" THEN <<>>
        ELSE (IF is_section_entry(value)
                 /\ matches_keywords(dict_get(value, s_section).section, keywords)
              THEN <<[path |-> new_path, section |-> dict_get(value, s_section).section]>>
              ELSE <<>>)
             \o (IF dict_has(value, s_subsections)
                 THEN search_structure(new_path, dict_get(value, s_subsections), keywords)
                 ELSE <<>>)

search_structure(current_path, structure, keywords) ==
    concat([k \in 1..Len(structure.entries) |->
               search_entry(current_path, structure.entries[k], keywords)])

find_content_with_keywords(parsed_filing, keywords) ==
    search_structure(<<>>, parsed_filing.structure, keywords)

(***************************************************************************)
(* The documents, oracle replies and queries of the model                  *)
(***************************************************************************)
rep(c, n) == [k \in 1..n |-> c]

FinancialTable ==
    [name |-> "table", text |-> <<>>,
     rows |-> << <<<<"Y","e","a","r">>, <<"P","r","e","m","i","u","m">>, <<"L","o","s","s"," ","R","a","t","i","o">>>>,
                 <<<<"2","0","2","3">>, <<"$","1","0","0","M">>, <<"6","2","%">>>>,
                 <<<<"2","0","2","2">>, <<"$","9","5","M">>, <<"6","4","%">>>> >>]

CoverPageTable ==
    [name |-> "table", text |-> <<>>,
     rows |-> << <<<<"A","n","n","u","a","l"," ","r","e","p","o","r","t"," ","p","u","r","s","u","a","n","t"," ","t","o"," ","S","e","c","t","i","o","n"," ","1","3">>, <<"$","1">>>>,
                 <<<<"C","o","m","m","i","s","s","i","o","n"," ","f","i","l","e"," ","n","u","m","b","e","r">>, <<"1","%">>>>,
                 <<<<"C","h","e","c","k"," ","o","n","e">>, <<"x">>>> >>]

TwoRowTable ==
    [name |-> "table", text |-> <<>>,
     rows |-> << <<<<"T","o","t","a","l"," ","p","r","e","m","i","u","m"," ","i","n"," ","$"," ","m","i","l","l","i","o","n"," ","f","o","r"," ","t","h","e"," ","y","e","a","r"," ","e","n","d","e","d">>>>,
                 <<<<"L","o","s","s"," ","r","a","t","i","o"," ","6","2","%">>>> >>]

Heading(name, text) == [name |-> name, text |-> text, rows |-> <<>>]

\* Item 1A is followed by a financial table; Item 7 is followed by more
\* qualifying tables than a section may own.
SoupWithTables == <<
    Heading("p", <<"I","t","e","m"," ","1","."," ","B","u","s","i","n","e","s","s">>),
    Heading("h2", <<"I","t","e","m"," ","1","A","."," ","R","i","s","k"," ","F","a","c","t","o","r","s">>), FinancialTable,
    Heading("h2", <<"I","t","e","m"," ","7","."," ","M","a","n","a","g","e","m","e","n","t","'","s"," ","D","i","s","c","u","s","s","i","o","n"," ","a","n","d"," ","A","n","a","l","y","s","i","s">>),
    CoverPageTable, FinancialTable, TwoRowTable, FinancialTable,
    Heading("p", <<"R","e","s","u","l","t","s">>), FinancialTable, FinancialTable,
    Heading("h2", <<"I","t","e","m"," ","8","."," ","F","i","n","a","n","c","i","a","l"," ","S","t","a","t","e","m","e","n","t","s">>),
    FinancialTable >>

LongText == rep("x", 1100)

Text500 == rep("y", 500)

Docs == <<
    \* two chunks, the second long enough for the boundary oracle to be asked;
    \* tables after the Item 7 heading
    [text_content |-> <<"I","t","e","m"," ","1","."," ","B","u","s","i","n","e","s","s"," ","o","f"," ","t","h","e"," ","c","o","m","p","a","n","y","\n","W","e"," ","s","e","l","l"," ","i","n","s","u","r","a","n","c","e",".","\n","P","A","R","T"," ","I","I","\n","I","t","e","m"," ","7","."," ","M","a","n","a","g","e","m","e","n","t","'","s"," ","D","i","s","c","u","s","s","i","o","n"," ","a","n","d"," ","A","n","a","l","y","s","i","s","\n","P","r","e","m","i","u","m","s"," ","g","r","e","w",".","\n">>
                      \o LongText \o <<"\n","I","t","e","m"," ","8","."," ","F","i","n","a","n","c","i","a","l"," ","S","t","a","t","e","m","e","n","t","s","\n","B","a","l","a","n","c","e"," ","s","h","e","e","t",".">>,
     soup |-> SoupWithTables],
    \* the Item 7 header, 500 characters of text, the Item 8 header
    [text_content |-> <<"I","t","e","m"," ","7","."," ","M","a","n","a","g","e","m","e","n","t","'","s"," ","D","i","s","c","u","s","s","i","o","n"," ","a","n","d"," ","A","n","a","l","y","s","i","s","\n">> \o Text500
                      \o <<"\n","I","t","e","m"," ","8","."," ","C","o","n","t","r","o","l","s","\n","T","e","x","t"," ","a","f","t","e","r"," ","i","t","e","m"," ","8",".">>,
     soup |-> <<>>],
    \* the same after an Item 1 header that starts the narrative
    [text_content |-> <<"I","t","e","m"," ","1","."," ","B","u","s","i","n","e","s","s"," ","o","f"," ","t","h","e"," ","c","o","m","p","a","n","y","\n","I","t","e","m"," ","7","."," ","M","a","n","a","g","e","m","e","n","t","'","s"," ","D","i","s","c","u","s","s","i","o","n"," ","a","n","d"," ","A","n","a","l","y","s","i","s","\n">>
                      \o Text500 \o <<"\n","I","t","e","m"," ","8","."," ","C","o","n","t","r","o","l","s","\n","T","e","x","t"," ","a","f","t","e","r"," ","i","t","e","m"," ","8",".">>,
     soup |-> <<>>],
    \* the same with an Item 8 header that names the financial statements
    [text_content |-> <<"I","t","e","m"," ","1","."," ","B","u","s","i","n","e","s","s"," ","o","f"," ","t","h","e"," ","c","o","m","p","a","n","y","\n","I","t","e","m"," ","7","."," ","M","a","n","a","g","e","m","e","n","t","'","s"," ","D","i","s","c","u","s","s","i","o","n"," ","a","n","d"," ","A","n","a","l","y","s","i","s","\n">>
                      \o Text500 \o <<"\n","I","t","e","m"," ","8","."," ","F","i","n","a","n","c","i","a","l"," ","S","t","a","t","e","m","e","n","t","s","\n","T","e","x","t"," ","a","f","t","e","r"," ","i","t","e","m"," ","8",".">>,
     soup |-> <<>>],
    \* a response without a body
    [text_content |-> <<>>, soup |-> <<>>],
    \* eight chunks, two more than a parse submits
    [text_content |-> <<"I","t","e","m"," ","1","."," ","B","u","s","i","n","e","s","s"," ","o","f"," ","t","h","e"," ","c","o","m","p","a","n","y","\n","W","e"," ","s","e","l","l"," ","i","n","s","u","r","a","n","c","e",".">>
                      \o <<"\n","P","A","R","T"," ","I","\n","N","o","t","e","s"," ","o","f"," ","c","h","u","n","k"," ","2"," ","a","b","o","u","t"," ","t","h","e"," ","b","u","s","i","n","e","s","s",".">>
                      \o <<"\n","P","A","R","T"," ","I","I","\n","N","o","t","e","s"," ","o","f"," ","c","h","u","n","k"," ","3"," ","a","b","o","u","t"," ","t","h","e"," ","m","a","r","k","e","t","s",".">>
                      \o <<"\n","P","A","R","T"," ","I","I","\n","N","o","t","e","s"," ","o","f"," ","c","h","u","n","k"," ","4"," ","a","b","o","u","t"," ","t","h","e"," ","r","e","s","u","l","t","s",".">>
                      \o <<"\n","P","A","R","T"," ","I","I","\n","N","o","t","e","s"," ","o","f"," ","c","h","u","n","k"," ","5"," ","a","b","o","u","t"," ","t","h","e"," ","a","c","c","o","u","n","t","s",".">>
                      \o <<"\n","P","A","R","T"," ","I","I","I","\n","N","o","t","e","s"," ","o","f"," ","c","h","u","n","k"," ","6"," ","a","b","o","u","t"," ","t","h","e"," ","d","i","r","e","c","t","o","r","s",".">>
                      \o <<"\n","P","A","R","T"," ","I","I","I","\n","N","o","t","e","s"," ","o","f"," ","c","h","u","n","k"," ","7"," ","a","b","o","u","t"," ","t","h","e"," ","o","w","n","e","r","s",".">>
                      \o <<"\n","P","A","R","T"," ","I","V","\n","N","o","t","e","s"," ","o","f"," ","c","h","u","n","k"," ","8"," ","a","b","o","u","t"," ","t","h","e"," ","e","x","h","i","b","i","t","s",".">>,
     soup |-> <<>>] >>

\* The documents a 200 response carries, the body of a response without
\* content, and the document of more chunks than the cap.
FullDocs == {1, 2, 3, 4, 6}

EmptyDocs == {5}

LongDocs == {6}

\* The max_chunk_size of the parse: the default 50000 of
\* _split_content_intelligently, scaled to the documents of the model.
ParseMaxChunkSize == 40

MaxChunksProcessed == 6

\* A SectionFound of the structure-mapping oracle's reply.
SectionFound(section_id, part, title, content_start, content_length, contains_key_info) ==
    [section_id |-> section_id, part |-> part, title |-> title,
     content_start |-> content_start, content_length |-> content_length,
     contains_key_info |-> contains_key_info]

sf_item_7 ==
    SectionFound(s_item_7, s_part_2, s_mda_title, <<"I","t","e","m"," ","7",".">>, 1000, <<<<"c","o","m","b","i","n","e","d"," ","r","a","t","i","o">>>>)

sf_item_7_in_part_1 ==
    SectionFound(s_item_7, s_part_1, s_mda_title, <<>>, 1000, <<>>)

sf_item_1a == SectionFound(s_item_1a, s_part_1, <<"R","i","s","k"," ","F","a","c","t","o","r","s">>, <<>>, 300, <<>>)

sf_item_1 == SectionFound(s_item_1, s_part_1, <<"B","u","s","i","n","e","s","s">>, <<"O","v","e","r","v","i","e","w"," ","o","f">>, 300, <<>>)

\* a section_id and a part that the outline does not have
sf_off_outline ==
    SectionFound(s_section, s_part_2, <<"F","i","n","a","n","c","i","a","l"," ","S","t","a","t","e","m","e","n","t","s">>, <<>>, 10, <<>>)

SectionLists ==
    { <<>>, <<sf_item_7>>, <<sf_item_7_in_part_1>>, <<sf_item_1a>>, <<sf_off_outline>>,
      <<sf_item_1, sf_item_1a>>, <<sf_item_7, sf_item_7_in_part_1>> }

\* The valid replies of the structure-mapping oracle enumerated for the
\* chunks of document d: one reply for each chunk of the long document.
OracleSectionLists(d) == IF d \in LongDocs THEN {<<sf_item_1a>>} ELSE SectionLists

OracleRaise == [kind |-> "raise", text |-> <<>>]

OracleEmpty == [kind |-> "empty", text |-> <<>>]

OracleText(text) == [kind |-> "text", text |-> text]

BoundaryReplies == {OracleRaise, OracleText(s_not_found), OracleText(<<" ","6","0","0"," ">>)}

\* The replies of the description oracle to the successive tables of a section:
\* a description, a failure, an empty reply, a description.
DescribeReplies ==
    <<OracleText(<<" ","P","r","e","m","i","u","m","s"," ","a","n","d"," ","l","o","s","s"," ","r","a","t","i","o","s"," ","b","y"," ","y","e","a","r","."," ">>), OracleRaise, OracleEmpty,
      OracleText(<<"P","r","e","m","i","u","m","s"," ","a","n","d"," ","l","o","s","s"," ","r","a","t","i","o","s"," ","b","y"," ","y","e","a","r",".">>)>>

\* The boundary oracle is asked when the hint is found and more than
\* LlmBoundaryMinWindow characters follow.
boundary_asked(chunk, section_info) ==
    LET hint == section_info.content_start
        chunk_lower == lower(chunk)
        hint_lower == slice(lower(hint), 0, HintPrefixLen)
        start_pos == find(chunk_lower, hint_lower, 0)
    IN  /\ hint # <<>>
        /\ start_pos # -1
        /\ Len(slice(chunk, start_pos, start_pos + SectionWindow)) > LlmBoundaryMinWindow

\* The replies of the nested oracles while one section is built; the boundary
\* reply varies where the oracle is asked.
Scripts(chunk, section_info) ==
    [boundary : IF boundary_asked(chunk, section_info) THEN BoundaryReplies
                ELSE {OracleText(s_not_found)},
     describe : {DescribeReplies}]

Paths ==
    { <<"p","a","r","t","_","2",".","i","t","e","m","_","7">>, <<"p","a","r","t","_","1",".","i","t","e","m","_","1","a">>, <<"p","a","r","t","_","1",".","i","t","e","m","_","7">>, <<"p","a","r","t","_","2",".","s","e","c","t","i","o","n">>,
      <<"P","a","r","t","1",".","I","t","e","m","1","A">>, <<"P","a","r","t","I","I",".","I","t","e","m","7">>, <<"P","a","r","t","2",".","I","t","e","m","7">>, <<"P","A","R","T","I",".","I","T","E","M","1">>,
      <<"p","a","r","t","_","2">>, <<"p","a","r","t","_","2",".","i","t","e","m","_","9">>, <<"p","a","r","t","_","3",".","i","t","e","m","_","7">>, <<"p","a","r","t","_","2",".","i","t","e","m","_","7",".","s","e","c","t","i","o","n">>,
      <<"p","a","r","t","_","1",".","i","t","e","m","_","1",".","i","t","e","m","_","1","a">>, <<>> }

PathReplies ==
    { OracleRaise, OracleEmpty, OracleText(s_not_found), OracleText(<<"p","a","r","t","_","2",".","i","t","e","m","_","7">>),
      OracleText(<<"p","a","r","t","_","1",".","i","t","e","m","_","1","a">>), OracleText(<<"p","a","r","t","_","2",".","i","t","e","m","_","7",".","s","e","c","t","i","o","n">>) }

KeywordLists ==
    { <<>>, <<<<"P","R","E","M","I","U","M","S">>, <<"g","r","e","w">>>>, <<<<"z","e","b","r","a">>, <<"i","n","s","u","r","a","n","c","e">>>>, <<<<"I","t","e","m"," ","9">>>>, <<<<>>>>,
      <<<<"v","i","s","u","a","l"," ","c","o","n","t","e","n","t">>>> }

(***************************************************************************)
(* The parser as a state machine                                           *)
(***************************************************************************)
NoQuery == [op |-> "none", path |-> <<>>, keywords |-> <<>>, reply |-> OracleEmpty,
            outcome |-> ReturnedNone, found |-> <<>>]

NoResult == [total_length |-> 0, cleaned_length |-> 0, chunks_processed |-> 0,
             structure |-> Dict(<<>>)]

\* No download yet.
NoFetch == [kind |-> "none", status |-> 0, doc |-> 0, tool |-> "none",
            result |-> [success |-> TRUE, error |-> "none"]]

\* The tools of execute_tool that download and parse a filing.
ToolNames == {"download_structured_filing", "get_filing_section", "search_filing_content"}

\* What requests.get gives: a response with a status and a body (the index of
\* a document), or no response at all.
FetchOutcomes ==
    {[kind |-> "response", status |-> 200, doc |-> d] : d \in FullDocs}
    \cup {[kind |-> "response", status |-> status, doc |-> d] :
              status \in {204, 404, 503}, d \in EmptyDocs}
    \cup {[kind |-> "no_response", status |-> 0, doc |-> 0]}

\* Response.raise_for_status() raises HTTPError for a 4xx or 5xx status.
raise_for_status(status) == 400 <= status /\ status < 600

\* FilingParser.download_filing_content: the text of the response, or the
\* exception of requests.get or of raise_for_status.
download_filing_content(outcome) ==
    IF outcome.kind = "no_response" THEN Raised("ConnectionError")
    ELSE IF raise_for_status(outcome.status) THEN Raised("HTTPError")
    ELSE Returned(outcome.doc)

FnIdle == fn_pc = "off" /\ fn_arg = <<>> /\ fn_loc = <<>> /\ fn_ret = <<>>

Init ==
    /\ client \in BOOLEAN
    /\ current_soup = 0
    /\ pc = "idle"
    /\ parse_chunks = <<>>
    /\ parse_i = 0
    /\ pending_sections = <<>>
    /\ parse_sections = Dict(<<>>)
    /\ result = NoResult
    /\ raised = "none"
    /\ last = NoQuery
    /\ stores = <<>>
    /\ failures = {}
    /\ calls = <<>>
    /\ fetch = NoFetch
    /\ FnIdle

\* execute_tool of one of ToolNames up to the download of the filing.  An
\* exception of the download is caught by execute_tool, which returns
\* {"success": False, "error": str(e)}; otherwise the tool goes on to parse
\* the text it received.
DownloadFilingContent ==
    /\ pc = "idle"
    /\ \E tool \in ToolNames : \E outcome \in FetchOutcomes :
         \E content \in {download_filing_content(outcome)} :
           IF content.kind = "raise"
           THEN /\ fetch' = [kind |-> outcome.kind, status |-> outcome.status, doc |-> 0,
                             tool |-> tool,
                             result |-> [success |-> FALSE, error |-> content.exc]]
                /\ pc' = "tool_returned"
           ELSE /\ fetch' = [kind |-> outcome.kind, status |-> outcome.status,
                             doc |-> content.value, tool |-> "pending",
                             result |-> NoFetch.result]
                /\ pc' = "fetched"
    /\ UNCHANGED <<client, current_soup, parse_chunks, parse_i, pending_sections,
                   parse_sections, result, raised, last, stores, failures, calls, fn_vars>>

\* parse_structured_filing up to the choice of the parsing path; without an
\* oracle the whole call.
ParseStructuredFiling(d) ==
    LET text_content == Docs[d].text_content
        cleaned_content == preprocess_filing_content(text_content)
        split == split_content_intelligently(cleaned_content, ParseMaxChunkSize)
        header == [total_length |-> Len(text_content),
                   cleaned_length |-> Len(cleaned_content),
                   chunks_processed |-> Len(split),
                   structure |-> Dict(<<>>)]
    IN  /\ pc = "fetched"
        /\ fetch.doc = d
        /\ current_soup' = d
        /\ parse_chunks' = split
        /\ IF client
           THEN /\ pc' = "chunks"
                /\ result' = header
           ELSE /\ pc' = "parsed"
                /\ result' = [header EXCEPT
                                 !.structure = fallback_parse_structure(cleaned_content)]
        /\ UNCHANGED <<client, parse_i, pending_sections, parse_sections, raised, last,
                       stores, failures, calls, fetch, fn_vars>>

\* A faulty variant of ProcessChunkFailed: the failure of a chunk ends the
\* loop, and the parse returns the sections stored so far.
ProcessChunkFailedEndsLoop ==
    /\ pc = "chunks"
    /\ parse_i < Len(parse_chunks) /\ parse_i < MaxChunksProcessed
    /\ parse_i' = parse_i + 1
    /\ calls' = Append(calls, [chunk |-> parse_i + 1, valid |-> FALSE])
    /\ failures' = failures \cup {"structure"}
    /\ result' = [result EXCEPT !.structure = parse_sections]
    /\ pc' = "parsed"
    /\ UNCHANGED <<client, current_soup, parse_chunks, pending_sections,
                   parse_sections, raised, last, stores, fetch, fn_vars>>

\* One iteration of the loop over chunks[:6] when the structure-mapping
\* call raises, or its reply has no analyze_chunk block, or the block fails
\* validation: the chunk is skipped.
ProcessChunkFailed ==
    /\ pc = "chunks"
    /\ parse_i < Len(parse_chunks) /\ parse_i < MaxChunksProcessed
    /\ parse_i' = parse_i + 1
    /\ calls' = Append(calls, [chunk |-> parse_i + 1, valid |-> FALSE])
    /\ failures' = failures \cup {"structure"}
    /\ UNCHANGED <<client, current_soup, pc, parse_chunks, pending_sections,
                   parse_sections, result, raised, last, stores, fetch, fn_vars>>

\* One iteration of the loop over chunks[:6]: the structure-mapping oracle
\* replies with a valid ChunkAnalysis.
ProcessChunk ==
    /\ pc = "chunks"
    /\ parse_i < Len(parse_chunks) /\ parse_i < MaxChunksProcessed
    /\ parse_i' = parse_i + 1
    /\ calls' = Append(calls, [chunk |-> parse_i + 1, valid |-> TRUE])
    /\ \E sections_found \in OracleSectionLists(current_soup) :
         /\ pending_sections' = sections_found
         /\ pc' = IF sections_found = <<>> THEN "chunks" ELSE "sections"
    /\ UNCHANGED <<client, current_soup, parse_chunks, parse_sections, result, raised,
                   last, stores, failures, fetch, fn_vars>>

\* One iteration of the loop over chunk_analysis.sections_found.
ProcessSection ==
    /\ pc = "sections"
    /\ \E script \in Scripts(parse_chunks[parse_i], Head(pending_sections)) :
         \E built \in {build_section(parse_chunks[parse_i], Head(pending_sections),
                                      Docs[current_soup].soup, script)} :
           /\ IF built.some
              THEN /\ parse_sections' =
                          store_section(parse_sections, Head(pending_sections).part,
                                        Head(pending_sections).section_id, built.val)
                   /\ stores' = Append(stores,
                          [chunk |-> parse_i, part |-> Head(pending_sections).part,
                           section_id |-> Head(pending_sections).section_id,
                           section |-> built.val])
              ELSE UNCHANGED <<parse_sections, stores>>
           /\ failures' = failures
                  \cup (IF /\ boundary_asked(parse_chunks[parse_i], Head(pending_sections))
                           /\ script.boundary.kind # "text"
                        THEN {"boundary"} ELSE {})
                  \cup (IF /\ built.some
                           /\ \E k \in 1..Len(built.val.visual_elements) :
                                  script.describe[k].kind # "text"
                        THEN {"describe"} ELSE {})
    /\ pending_sections' = Tail(pending_sections)
    /\ pc' = IF Tail(pending_sections) = <<>> THEN "chunks" ELSE "sections"
    /\ UNCHANGED <<client, current_soup, parse_chunks, parse_i, result, raised, last,
                   calls, fetch, fn_vars>>

\* The end of the loop: parse_structured_filing returns the result.
ParseReturn ==
    /\ pc = "chunks"
    /\ ~(parse_i < Len(parse_chunks) /\ parse_i < MaxChunksProcessed)
    /\ result' = [result EXCEPT !.structure = parse_sections]
    /\ pc' = "parsed"
    /\ UNCHANGED <<client, current_soup, parse_chunks, parse_i, pending_sections,
                   parse_sections, raised, last, stores, failures, calls, fetch, fn_vars>>

\* get_section_by_path(result, path); reply is the path-mapping oracle's
\* answer if it is asked.
GetSectionByPath ==
    /\ pc = "parsed"
    /\ \E path \in Paths :
         \E reply \in (IF client THEN PathReplies ELSE {OracleEmpty}) :
           \E outcome \in {get_section_by_path(result, path, client, reply)} :
               /\ last' = [NoQuery EXCEPT !.op = "get_section_by_path", !.path = path,
                                          !.reply = reply, !.outcome = outcome]
               /\ raised' = outcome.exc
               /\ failures' = IF /\ client
                                 /\ collect_paths(<<>>, result.structure) # <<>>
                                 /\ reply.kind # "text"
                              THEN failures \cup {"path"} ELSE failures
    /\ pc' = "queried"
    /\ UNCHANGED <<client, current_soup, parse_chunks, parse_i, pending_sections,
                   parse_sections, result, stores, calls, fetch, fn_vars>>

\* find_content_with_keywords(result, keywords)
FindContentWithKeywords ==
    /\ pc = "parsed"
    /\ \E keywords \in KeywordLists :
         last' = [NoQuery EXCEPT !.op = "find_content_with_keywords",
                                 !.keywords = keywords,
                                 !.found = find_content_with_keywords(result, keywords)]
    /\ pc' = "queried"
    /\ UNCHANGED <<client, current_soup, parse_chunks, parse_i, pending_sections,
                   parse_sections, result, raised, stores, failures, calls, fetch, fn_vars>>

Next ==
    \/ DownloadFilingContent
    \/ \E d \in 1..Len(Docs) : ParseStructuredFiling(d)
    \/ ProcessChunkFailed
    \/ ProcessChunk
    \/ ProcessSection
    \/ ParseReturn
    \/ GetSectionByPath
    \/ FindContentWithKeywords

Spec == Init /\ [][Next]_vars

(***************************************************************************)
(* Properties of the parse result and of the query interface               *)
(***************************************************************************)
Parsed == pc \in {"parsed", "queried"}

Looked == pc = "queried" /\ last.op = "get_section_by_path"

Searched == pc = "queried" /\ last.op = "find_content_with_keywords"

\* The sections of a tree, read by indexing its two levels directly:
\* structure[part]["subsections"][id]["section"].
stored_entries(structure) ==
    UNION {
        LET part == structure.entries[p]
            subsections == dict_get(part.value, s_subsections)
        IN  {[part |-> part.key, id |-> subsections.entries[q].key,
              section |-> dict_get(subsections.entries[q].value, s_section).section] :
                 q \in 1..Len(subsections.entries)} :
        p \in 1..Len(structure.entries)}

dotted(part, id) == part \o <<".">> \o id

\* The Item identifiers of the static outline, and signatures.
OutlineItemIds ==
    UNION {{FORM_10K_STRUCTURE[p].sections[q].id :
               q \in 1..Len(FORM_10K_STRUCTURE[p].sections)} :
           p \in 1..Len(FORM_10K_STRUCTURE)}
    \cup {s_signatures}

\* C1: in every ParsedFiling returned by parse_structured_filing, every
\* stored FilingSection has a section_id that is an Item identifier of
\* FORM_10K_STRUCTURE, or signatures.
C1_SectionIdsInOutline ==
    Parsed => \A e \in stored_entries(result.structure) :
                  e.section.section_id \in OutlineItemIds

\* The two characters are the same letter in either case, or the same
\* character.
same_ignoring_case(a, b) ==
    \/ a = b
    \/ \E n \in 1..26 : {a, b} = {UpperLetters[n], LowerLetters[n]}

\* keyword occurs in content as a case-insensitive substring.
occurs_ignoring_case(keyword, content) ==
    \E at \in 0..(Len(content) - Len(keyword)) :
        \A j \in 1..Len(keyword) : same_ignoring_case(content[at + j], keyword[j])

\* The stored sections whose content holds at least one of the keywords.
matching_entries(structure, keywords) ==
    {e \in stored_entries(structure) :
        \E k \in 1..Len(keywords) : occurs_ignoring_case(keywords[k], e.section.content)}

\* C2: find_content_with_keywords returns exactly the stored sections whose
\* content contains at least one keyword as a case-insensitive substring:
\* each of them once, under its path, none else, and the empty list when
\* none matches.
C2_KeywordSearchExact ==
    Searched =>
        /\ \A e \in matching_entries(result.structure, last.keywords) :
               Cardinality({k \in 1..Len(last.found) :
                               last.found[k] = [path |-> dotted(e.part, e.id),
                                                section |-> e.section]}) = 1
        /\ \A k \in 1..Len(last.found) :
               \E e \in matching_entries(result.structure, last.keywords) :
                   last.found[k] = [path |-> dotted(e.part, e.id), section |-> e.section]
        /\ (matching_entries(result.structure, last.keywords) = {} => last.found = <<>>)

\* Two keywords of the search both occur in a returned section, in another
\* letter case, and another stored section is not returned.
C2_Witness ==
    /\ Searched
    /\ Len(last.keywords) = 2
    /\ \E k \in 1..Len(last.found) :
           /\ \A n \in 1..2 :
                  occurs_ignoring_case(last.keywords[n], last.found[k].section.content)
           /\ ~contains(last.keywords[1], last.found[k].section.content)
    /\ \E e \in stored_entries(result.structure) :
           \A k \in 1..Len(last.found) : last.found[k].section # e.section

\* C3: for every section stored under part P and item I,
\* get_section_by_path(parsed, "P.I") returns exactly that FilingSection,
\* with or without an oracle and whatever the path-mapping oracle replies.
C3_PathRoundTrip ==
    Looked =>
        \A e \in stored_entries(result.structure) :
            last.path = dotted(e.part, e.id) => last.outcome = Returned(Obj(e.section))

\* The path-mapping oracle is not configured, or answers NOT_FOUND, or fails.
NoMappedPath ==
    \/ ~client
    \/ last.reply.kind # "text"
    \/ strip(last.reply.text) = s_not_found

\* The stored entries that the part and item components of a path name.
named_entries(structure, path) ==
    LET parts == split_dots(normalise_path(path))
    IN  {e \in stored_entries(structure) :
            Len(parts) >= 2 /\ e.part = parts[1] /\ e.id = parts[2]}

\* C4: without a mapped path, get_section_by_path returns None for every
\* path whose part or item component names no stored entry, and whatever it
\* returns is the section stored at the normalised path.
C4_NotFoundForUnstoredPath ==
    (Looked /\ NoMappedPath) =>
        /\ named_entries(result.structure, last.path) = {} => last.outcome = ReturnedNone
        /\ last.outcome.kind = "value" =>
               \E e \in named_entries(result.structure, last.path) :
                   last.outcome.value = Obj(e.section)

(***************************************************************************)
(* Harness for the splitter: every text of at most MaxSplitLines lines     *)
(* drawn from SplitLineChoices, every chunk size of SplitSizes.            *)
(***************************************************************************)
MaxSplitLines == 3

SplitLineChoices ==
    { <<>>, <<" ">>, <<"a","b">>, <<" ","c"," ">>, <<"P","A","R","T"," ","I">>, <<"P","a","r","t"," ","i","i"," ","x">>, <<"I","t","e","m"," ","1",".">>, <<"S","I","G","N","A","T","U","R","E","S">> }

SplitSizes == {0, 4, 9, 50000}

RECURSIVE texts_of(_)
texts_of(n) ==
    IF n = 1 THEN SplitLineChoices
    ELSE LET shorter == texts_of(n - 1)
         IN  shorter \cup {t \o <<"\n">> \o l : t \in shorter, l \in SplitLineChoices}

SplitInputs == [text : texts_of(MaxSplitLines), max_chunk_size : SplitSizes]

\* The parser itself stays idle while a function is checked on its own.
MainIdle ==
    /\ client = FALSE
    /\ current_soup = 0
    /\ pc = "off"
    /\ parse_chunks = <<>>
    /\ parse_i = 0
    /\ pending_sections = <<>>
    /\ parse_sections = Dict(<<>>)
    /\ result = NoResult
    /\ raised = "none"
    /\ last = NoQuery
    /\ stores = <<>>
    /\ failures = {}
    /\ calls = <<>>
    /\ fetch = NoFetch

InitSplit ==
    /\ fn_pc = "ready"
    /\ fn_arg \in SplitInputs
    /\ fn_loc = <<>>
    /\ fn_ret = <<>>
    /\ MainIdle

CallSplit ==
    /\ fn_pc = "ready"
    /\ fn_ret' = split_content_intelligently(fn_arg.text, fn_arg.max_chunk_size)
    /\ fn_pc' = "done"
    /\ UNCHANGED <<fn_arg, fn_loc, main_vars>>

NextSplit == CallSplit

SpecSplit == InitSplit /\ [][NextSplit]_vars

(***************************************************************************)
(* C5                                                                      *)
(***************************************************************************)
non_whitespace(s) == SelectSeq(s, LAMBDA c : c \notin Whitespace)

\* The chunks lie in the text one after another: each starts at or after the
\* end of the one before it.
RECURSIVE in_order_from(_, _, _)
in_order_from(chunks, text, from) ==
    IF chunks = <<>> THEN TRUE
    ELSE LET at == find(text, Head(chunks), from)
         IN  /\ at # -1
             /\ in_order_from(Tail(chunks), text, at + Len(Head(chunks)))

\* C5: the chunks of _split_content_intelligently are consecutive,
\* non-overlapping pieces of the input in input order, and their
\* concatenation equals the input once whitespace is removed from both.
C5_ChunkReconstruction ==
    fn_pc = "done" =>
        /\ in_order_from(fn_ret, fn_arg.text, 0)
        /\ non_whitespace(concat(fn_ret)) = non_whitespace(fn_arg.text)

\* A text is split in two at a marker line and both halves carry text.
C5_Witness ==
    /\ fn_pc = "done"
    /\ Len(fn_ret) >= 2
    /\ \E k \in 1..Len(fn_ret) : \E j \in 1..Len(fn_ret[k]) : fn_ret[k][j] \in Whitespace

(***************************************************************************)
(* Properties of the parse                                                 *)
(***************************************************************************)
\* C6: each FilingSection of the tree under construction, of the result and
\* of every store owns at most 3 VisualElements.
C6_AtMostThreeVisuals ==
    /\ \A e \in stored_entries(parse_sections) \cup stored_entries(result.structure) :
           Len(e.section.visual_elements) <= 3
    /\ \A k \in 1..Len(stores) : Len(stores[k].section.visual_elements) <= 3

\* The tables between the section's header and the next major heading that
\* the filters accept.
qualifying_tables(soup, section_id, section_title) ==
    LET elements == all_elements(soup)
        header == section_start_element(elements, section_id, section_title)
        after == {k \in 1..Len(elements) : k > header /\ is_next_major_section(elements[k])}
        stop == IF after = {} THEN Len(elements) + 1 ELSE Min(after)
    IN  IF header = 0 THEN {}
        ELSE {k \in (header + 1)..(stop - 1) :
                 /\ elements[k].name = "table"
                 /\ Len(elements[k].rows) >= 3
                 /\ is_meaningful_table(extract_table_text(elements[k]))
                 /\ is_section_relevant_table(extract_table_text(elements[k]), section_id)}

\* A stored section owns 3 visuals and more than 3 qualifying tables follow
\* its header.
C6_Witness ==
    /\ Parsed
    /\ \E e \in stored_entries(result.structure) :
           /\ Len(e.section.visual_elements) = 3
           /\ Cardinality(qualifying_tables(Docs[current_soup].soup, e.section.section_id,
                                            e.section.title)) > 3

\* The fallback description of a table.
fallback_description(visual) ==
    <<"T","a","b","l","e",":"," ">> \o slice(visual.extracted_text, 0, 100) \o <<".",".",".">>

\* C7: no oracle failure is fatal.  While parsing no exception reaches the
\* caller, and the parse ends with every chunk within the cap visited; a
\* table whose description request failed carries the fallback description;
\* a lookup whose path-mapping call failed returns normally, with the
\* outcome of the fallback lookup.
C7_NoOracleFailureFatal ==
    /\ pc \in {"chunks", "sections", "parsed"} => raised = "none"
    /\ (pc = "parsed" /\ client) =>
           /\ pending_sections = <<>>
           /\ parse_i = Min({Len(parse_chunks), 6})
    /\ \A k \in 1..Len(stores) :
           \A v \in 1..Len(stores[k].section.visual_elements) :
               DescribeReplies[v].kind # "text" =>
                   stores[k].section.visual_elements[v].description
                       = fallback_description(stores[k].section.visual_elements[v])
    /\ (Looked /\ "path" \in failures) =>
           /\ last.outcome.kind # "raise"
           /\ last.outcome = fallback_path_lookup(result, last.path)

item_7_header == <<"I","t","e","m"," ","7","."," ","M","a","n","a","g","e","m","e","n","t","'","s"," ","D","i","s","c","u","s","s","i","o","n"," ","a","n","d"," ","A","n","a","l","y","s","i","s">>

item_8_header == <<"I","t","e","m"," ","8",".">>

\* Where the "Item 8." header starts that follows the Item 7 header and at
\* least 500 characters of text, or -1.
item_8_after_item_7(text) ==
    LET at == find(text, item_7_header, 0)
    IN  IF at = -1 THEN -1
        ELSE find(text, item_8_header, at + Len(item_7_header) + 500)

\* C8: with no oracle configured, a document with the Item 7 header, at
\* least 500 characters of text and then an "Item 8." header yields a
\* FilingSection item_7 under part_2 whose content is non-empty and holds
\* no text that appears after "Item 8.".
C8_FallbackItem7 ==
    LET text == Docs[current_soup].text_content
        item_8 == item_8_after_item_7(text)
    IN  (Parsed /\ ~client /\ item_8 # -1) =>
            \E e \in stored_entries(result.structure) :
                /\ e.part = s_part_2
                /\ e.id = s_item_7
                /\ e.section.content # <<>>
                /\ \E at \in 0..item_8 :
                       /\ match_at(text, e.section.content, at)
                       /\ \A j \in 1..Len(e.section.content) :
                              at + j > item_8 + Len(item_8_header)
                                  => e.section.content[j] \in Whitespace

\* The last store of a section identifier.
last_store(section_id) ==
    stores[CHOOSE k \in 1..Len(stores) :
               /\ stores[k].section_id = section_id
               /\ \A j \in (k + 1)..Len(stores) : stores[j].section_id # section_id]

\* C9: after a parse, for every section identifier stored from more than
\* one chunk, the structure holds exactly one FilingSection with that
\* identifier, the one built from the last such chunk.
C9_LastWriteWins ==
    Parsed =>
        \A section_id \in {stores[k].section_id : k \in 1..Len(stores)} :
            Cardinality({stores[k].chunk :
                            k \in {j \in 1..Len(stores) :
                                      stores[j].section_id = section_id}}) > 1
            => LET held == {e \in stored_entries(result.structure) :
                                e.section.section_id = section_id}
               IN  /\ Cardinality(held) = 1
                   /\ \A e \in held : e.section = last_store(section_id).section

\* The aliases of the lookups of the model, each with its canonical path.
AliasPaths ==
    { <<<<"P","a","r","t","1",".","I","t","e","m","1","A">>, <<"p","a","r","t","_","1",".","i","t","e","m","_","1","a">>>>, <<<<"P","a","r","t","I","I",".","I","t","e","m","7">>, <<"p","a","r","t","_","2",".","i","t","e","m","_","7">>>>,
      <<<<"P","a","r","t","2",".","I","t","e","m","7">>, <<"p","a","r","t","_","2",".","i","t","e","m","_","7">>>>, <<<<"P","A","R","T","I",".","I","T","E","M","1">>, <<"p","a","r","t","_","1",".","i","t","e","m","_","1">>>> }

\* C10: with no oracle configured, an alias in any letter case resolves to
\* the same FilingSection as its canonical path.
C10_AliasesResolveLikeCanonical ==
    (Looked /\ ~client) =>
        \A alias \in AliasPaths :
            last.path = alias[1] =>
                last.outcome = get_section_by_path(result, alias[2], FALSE, OracleEmpty)

\* The three-level path of a nested item, as the get_filing_section tool
\* advertises it, with the part and the item it names.
NestedPaths ==
    { [path |-> <<"p","a","r","t","_","1",".","i","t","e","m","_","1",".","i","t","e","m","_","1","a">>, part |-> s_part_1, id |-> s_item_1a] }

\* C11: whenever a parse has stored a nested item (item_1a claimed under
\* part_1), looking up its three-level path "part_1.item_1.item_1a" returns
\* that section.
C11_ThreeLevelPathsResolve ==
    Looked =>
        \A n \in NestedPaths :
            last.path = n.path =>
                \A e \in stored_entries(result.structure) :
                    (e.part = n.part /\ e.id = n.id)
                        => last.outcome = Returned(Obj(e.section))

(***************************************************************************)
(* Harness for the preprocessor, one step per iteration of its loop over   *)
(* lines: every text of at most MaxPreLines lines drawn from               *)
(* PreLineChoices, and the texts of LongPreInputs.                         *)
(***************************************************************************)
MaxPreLines == 3

s_position_line == <<"T","h","e"," ","c","o","m","p","a","n","y"," ","s","e","l","l","s"," ","i","n","s","u","r","a","n","c","e"," ","i","n"," ","e","v","e","r","y"," ","s","t","a","t","e"," ","o","f"," ","t","h","e"," ","u","n","i","o","n",".">>

PreLineChoices ==
    { <<>>, <<"x","b","r","l">>, <<"T","a","b","l","e"," ","o","f"," ","C","o","n","t","e","n","t","s">>, <<"B","u","s","i","n","e","s","s"," ","6">>, <<"F","o","r","w","a","r","d","-","L","o","o","k","i","n","g"," ","S","t","a","t","e","m","e","n","t","s"," ","f","o","l","l","o","w">>,
      <<"I","t","e","m"," ","1","."," ","B","u","s","i","n","e","s","s"," ","o","f"," ","u","s">>, <<"W","e"," ","s","e","l","l"," ","t","h","i","n","g","s",".">>, s_position_line }

RECURSIVE pre_texts_of(_)
pre_texts_of(n) ==
    IF n = 1 THEN PreLineChoices
    ELSE LET shorter == pre_texts_of(n - 1)
         IN  shorter \cup {t \o <<"\n">> \o l : t \in shorter, l \in PreLineChoices}

\* An Item 1 header of 100 characters and more after a table of contents; an
\* opening that names its part; a text of six lines, whose position-based
\* scan starts at its second line.
LongPreInputs ==
    { <<"T","a","b","l","e"," ","o","f"," ","C","o","n","t","e","n","t","s","\n","I","t","e","m"," ","1","."," ">> \o rep("w", 100) \o <<"\n","n","e","x","t">>,
      <<"T","a","b","l","e"," ","o","f"," ","C","o","n","t","e","n","t","s","\n","P","a","r","t"," ","I"," ","-"," ","I","t","e","m"," ","1"," ","i","s"," ","t","h","e"," ","b","u","s","i","n","e","s","s"," ","s","e","c","t","i","o","n","\n","n","e","x","t">>,
      s_position_line \o <<"\n","b","\n","c","\n","d","\n">> \o s_position_line \o <<"\n","f">> }

PreInputs == pre_texts_of(MaxPreLines) \cup LongPreInputs

InitPre ==
    /\ fn_pc = "lines"
    /\ fn_arg \in PreInputs
    /\ fn_loc = [i |-> 0, st |-> preprocess_start, start_at |-> 0, toc_before |-> FALSE]
    /\ fn_ret = <<>>
    /\ MainIdle

\* One iteration of the loop over lines.  start_at and toc_before are
\* history: the iteration that detected the narrative start, and whether the
\* table-of-contents flag was set when this iteration began.
PreprocessLine ==
    /\ fn_pc = "lines"
    /\ fn_loc.i < Len(split_lines(fn_arg))
    /\ \E st \in {preprocess_step(fn_loc.st, split_lines(fn_arg)[fn_loc.i + 1])} :
         fn_loc' = [i |-> fn_loc.i + 1,
                    st |-> st,
                    start_at |-> IF ~fn_loc.st.found_narrative_start
                                    /\ st.found_narrative_start
                                 THEN fn_loc.i + 1 ELSE fn_loc.start_at,
                    toc_before |-> fn_loc.st.in_toc_section]
    /\ UNCHANGED <<fn_pc, fn_arg, fn_ret, main_vars>>

\* After the loop: the position-based approach, the join, the return.
PreprocessReturn ==
    /\ fn_pc = "lines"
    /\ fn_loc.i = Len(split_lines(fn_arg))
    /\ fn_ret' = preprocess_return(split_lines(fn_arg), fn_loc.st)
    /\ fn_pc' = "returned"
    /\ UNCHANGED <<fn_arg, fn_loc, main_vars>>

NextPre == PreprocessLine \/ PreprocessReturn

SpecPre == InitPre /\ [][NextPre]_vars

Preprocessed == fn_pc = "returned"

\* No heuristic fired: the loop found no narrative start and the
\* position-based approach found no qualifying line.
NoHeuristicFired ==
    /\ ~fn_loc.st.found_narrative_start
    /\ position_based(split_lines(fn_arg), fn_loc.st.cleaned_lines) = fn_loc.st.cleaned_lines

\* C12: _preprocess_filing_content never raises, and when no heuristic fires
\* it returns the full input text unmodified.
C12_FullTextWhenNoHeuristicFires ==
    /\ raised = "none"
    /\ (Preprocessed /\ NoHeuristicFired) => fn_ret = fn_arg

\* The text holds no boilerplate marker: no line holds a machine-tagging
\* indicator or a table-of-contents marker.
CleanText(text) ==
    \A k \in 1..Len(split_lines(text)) :
        LET line_lower == lower(strip(split_lines(text)[k]))
        IN  ~any_in(xbrl_indicators, line_lower) /\ ~any_in(toc_indicators, line_lower)

\* C13: on text that holds no boilerplate marker _preprocess_filing_content
\* returns the input unchanged up to whitespace, and applying it to its own
\* output changes nothing.
C13_IdentityOnCleanText ==
    (Preprocessed /\ CleanText(fn_arg)) =>
        /\ non_whitespace(fn_ret) = non_whitespace(fn_arg)
        /\ preprocess_filing_content(fn_ret) = fn_ret

\* The position of a part in the outline, 0 for a part it does not have.
part_rank(part) ==
    LET hits == {p \in 1..Len(FORM_10K_STRUCTURE) : FORM_10K_STRUCTURE[p].key = part}
    IN  IF hits = {} THEN 0 ELSE Min(hits)

\* The position of an Item in the outline, counted through the parts in
\* order, 0 for an identifier it does not have.
item_rank(id) ==
    LET hits == {<<p, q>> \in (1..Len(FORM_10K_STRUCTURE)) \X (1..9) :
                    /\ q <= Len(FORM_10K_STRUCTURE[p].sections)
                    /\ FORM_10K_STRUCTURE[p].sections[q].id = id}
    IN  IF hits = {} THEN 0
        ELSE LET h == CHOOSE x \in hits : TRUE IN 10 * h[1] + h[2]

\* Entry a of a result list comes before entry b in the outline: an earlier
\* part, or the same part and an earlier Item.
outline_before(a, b) ==
    LET pa == split_dots(a.path)
        pb == split_dots(b.path)
    IN  \/ part_rank(pa[1]) < part_rank(pb[1])
        \/ pa[1] = pb[1] /\ item_rank(pa[2]) < item_rank(pb[2])

in_outline(a) ==
    LET pa == split_dots(a.path)
    IN  Len(pa) = 2 /\ part_rank(pa[1]) # 0 /\ item_rank(pa[2]) # 0

\* C14: find_content_with_keywords returns its matches in the outline's Part
\* order and, within a part, in Item order, whatever the order in which the
\* parse inserted the parts and sections.
C14_MatchesInOutlineOrder ==
    Searched =>
        \A j, k \in 1..Len(last.found) :
            (j < k /\ in_outline(last.found[j]) /\ in_outline(last.found[k]))
                => outline_before(last.found[j], last.found[k])

(***************************************************************************)
(* Harness for the splitter, one step per iteration of its loop over       *)
(* lines (lines is the result of text_content.split('\n')).  The loop is    *)
(* sequential code: it always takes its next step.                         *)
(***************************************************************************)
MaxSplitLoopLines == 2

SplitLoopLineChoices == { <<>>, <<" ">>, <<"a","b">>, <<"P","A","R","T"," ","I">>, <<"I","t","e","m"," ","1",".">> }

RECURSIVE loop_texts_of(_)
loop_texts_of(n) ==
    IF n = 1 THEN SplitLoopLineChoices
    ELSE LET shorter == loop_texts_of(n - 1)
         IN  shorter \cup {t \o <<"\n">> \o l : t \in shorter, l \in SplitLoopLineChoices}

SplitLoopInputs == [text : loop_texts_of(MaxSplitLoopLines), max_chunk_size : {0, 50000}]

InitSplitLoop ==
    /\ fn_pc = "split_lines"
    /\ fn_arg \in SplitLoopInputs
    /\ fn_loc = [lines |-> split_lines(fn_arg.text), i |-> 0, st |-> split_start]
    /\ fn_ret = <<>>
    /\ MainIdle

\* One iteration of the loop over lines.
SplitLine ==
    /\ fn_pc = "split_lines"
    /\ fn_loc.i < Len(fn_loc.lines)
    /\ fn_loc' = [lines |-> fn_loc.lines,
                  i |-> fn_loc.i + 1,
                  st |-> split_step(fn_loc.st, fn_loc.lines[fn_loc.i + 1],
                                    fn_arg.max_chunk_size)]
    /\ UNCHANGED <<fn_pc, fn_arg, fn_ret, main_vars>>

\* After the loop: the last chunk and the return.
SplitReturn ==
    /\ fn_pc = "split_lines"
    /\ fn_loc.i = Len(fn_loc.lines)
    /\ fn_ret' = split_return(fn_loc.st)
    /\ fn_pc' = "split_returned"
    /\ UNCHANGED <<fn_arg, fn_loc, main_vars>>

NextSplitLoop == SplitLine \/ SplitReturn

SpecSplitLoop == InitSplitLoop /\ [][NextSplitLoop]_vars /\ WF_vars(NextSplitLoop)

SplitReturned == fn_pc = "split_returned"

\* C15, as stated: _split_content_intelligently terminates on every input
\* and every max_chunk_size, and returns at least one chunk whenever the
\* input text is not empty.
C15_AChunkUnlessEmpty ==
    /\ <>SplitReturned
    /\ [](SplitReturned /\ fn_arg.text # <<>> => Len(fn_ret) >= 1)

\* C15, amended: _split_content_intelligently terminates on every input and
\* every max_chunk_size, and returns at least one chunk whenever the input
\* text holds a character that is not whitespace.
C15_AChunkUnlessBlank ==
    /\ <>SplitReturned
    /\ [](SplitReturned /\ non_whitespace(fn_arg.text) # <<>> => Len(fn_ret) >= 1)

\* The loop has run twice over a text that is not blank and the call has
\* returned its chunks.
C15_Witness ==
    /\ SplitReturned
    /\ fn_loc.i = 2
    /\ non_whitespace(fn_arg.text) # <<>>
    /\ Len(fn_ret) >= 1

\* The download of the filing did not give a 200 response.
FetchFailed == fetch.kind = "no_response" \/ (fetch.kind = "response" /\ fetch.status # 200)

\* C16: when the fetch of the document fails (no 200 response), the tool call
\* ends with success false and the error: no parse of the response is
\* attempted, and no structure or section is returned.
C16_FetchFailureEndsTool ==
    FetchFailed =>
        /\ pc \in {"fetched", "tool_returned"}
        /\ pc = "tool_returned" =>
              /\ fetch.tool \in ToolNames
              /\ fetch.result.success = FALSE
              /\ fetch.result.error # "none"
        /\ current_soup = 0
        /\ parse_chunks = <<>>
        /\ result = NoResult

\* C17: the chunks go to the structure-mapping oracle in document order, one
\* at a time, and only the first 6 of them: a parse makes at most 6
\* structure-mapping calls, a parse that has returned made one call for each
\* of the first 6 chunks, and every stored section comes from a chunk that
\* was submitted, no later than the latest call, and holds no chunk beyond
\* the sixth.
C17_FirstSixChunksInOrder ==
    /\ Len(calls) <= 6
    /\ \A k \in 1..Len(calls) : calls[k].chunk = k
    /\ client /\ pc \in {"chunks", "sections"} => Len(calls) = parse_i
    /\ Parsed /\ client => Len(calls) = Min({Len(parse_chunks), 6})
    /\ \A k \in 1..Len(stores) :
          /\ stores[k].chunk \in 1..6
          /\ stores[k].chunk <= Len(calls)
          /\ k > 1 => stores[k - 1].chunk <= stores[k].chunk
          /\ \A j \in 7..Len(parse_chunks) :
                ~contains(parse_chunks[j], stores[k].section.content)

\* A parse of more than 6 chunks has returned, with sections stored from the
\* sixth chunk.
C17_Witness ==
    /\ Parsed /\ client
    /\ Len(parse_chunks) > 6
    /\ Len(calls) = 6
    /\ \E k \in 1..Len(stores) : stores[k].chunk = 6

\* The tree that storing the sections of ss, in order, builds.
RECURSIVE stored_by(_)
stored_by(ss) ==
    IF ss = <<>> THEN Dict(<<>>)
    ELSE LET n == Len(ss)
         IN  store_section(stored_by(SubSeq(ss, 1, n - 1)),
                           ss[n].part, ss[n].section_id, ss[n].section)

\* The chunks whose structure-mapping call raised or gave an invalid reply.
FailedChunks == {calls[k].chunk : k \in {j \in 1..Len(calls) : ~calls[j].valid}}

C19_AllLinesAfterNarrativeStart ==
    (fn_pc \in {"lines", "returned"} /\ fn_loc.st.found_narrative_start) =>
        fn_loc.st.cleaned_lines = SubSeq(split_lines(fn_arg), fn_loc.start_at, fn_loc.i)

\* The narrative-opening patterns of a line under table-of-contents
\* suppression.
opening_patterns == << <<"f","o","r","w","a","r","d","-","l","o","o","k","i","n","g"," ","s","t","a","t","e","m","e","n","t","s">>, <<"i","t","e","m"," ","1",".">>, <<"p","a","r","t"," ","i"," ","-"," ","i","t","e","m"," ","1">> >>

\* The iteration just made began under table-of-contents suppression, before
\* any narrative start, and its line holds a narrative-opening pattern and is
\* longer than 20 characters.
OpeningLineUnderSuppression ==
    /\ fn_pc = "lines" /\ fn_loc.i > 0
    /\ fn_loc.toc_before
    /\ fn_loc.start_at \in {0, fn_loc.i}
    /\ LET line == split_lines(fn_arg)[fn_loc.i]
       IN  /\ any_in(opening_patterns, lower(strip(line)))
           /\ Len(strip(line)) > 20

\* C20: under table-of-contents suppression the first line that holds a
\* narrative-opening pattern and is longer than 20 characters ends the
\* suppression and is the first line of the output.
C20_OpeningLineEndsSuppression ==
    OpeningLineUnderSuppression =>
        /\ ~fn_loc.st.in_toc_section
        /\ fn_loc.st.found_narrative_start
        /\ fn_loc.st.cleaned_lines = << split_lines(fn_arg)[fn_loc.i] >>

\* The line holds one of the canonical section-break markers as they are
\* written: PART I to PART IV, Item 1. to Item 16., SIGNATURES.
holds_marker(line) ==
    \E k \in 1..Len(section_markers) : contains(section_markers[k], strip(line))

\* The iteration about to run has a buffer that is not empty, a line that
\* would take it past max_chunk_size, and a section-break marker in the line.
FlushDue ==
    /\ fn_pc = "split_lines"
    /\ fn_loc.i < Len(fn_loc.lines)
    /\ fn_loc.st.current_chunk # <<>>
    /\ Len(fn_loc.st.current_chunk) + Len(fn_loc.lines[fn_loc.i + 1]) > fn_arg.max_chunk_size
    /\ holds_marker(fn_loc.lines[fn_loc.i + 1])

\* C21: whenever the buffer is not empty, the current line would take it past
\* max_chunk_size and the line holds a canonical section-break marker, the
\* iteration flushes the buffer as a completed chunk and the new buffer
\* starts with the line.
C21_FlushAtMarker ==
    [][FlushDue =>
          /\ fn_loc'.st.chunks = Append(fn_loc.st.chunks, strip(fn_loc.st.current_chunk))
          /\ fn_loc'.st.current_chunk = fn_loc.lines[fn_loc.i + 1] \o <<"\n">>]_vars

\* The line holds a canonical section-break marker in any letter case.
matches_marker(line) ==
    \E k \in 1..Len(section_markers) : contains(upper(section_markers[k]), upper(strip(line)))

\* No line of the text holds a section-break marker.
NoMarkerLine(text) ==
    \A k \in 1..Len(split_lines(text)) : ~matches_marker(split_lines(text)[k])

\* Every chunk other than the first begins with a line that holds a
\* section-break marker.
ChunksBeginAtMarkers ==
    \A k \in 2..Len(fn_ret) :
        /\ fn_ret[k] # <<>>
        /\ matches_marker(Head(split_lines(fn_ret[k])))

\* C22, as stated: every chunk other than the first begins with a line that
\* matches a section-break marker, and an input with no marker line yields a
\* single chunk however far it exceeds max_chunk_size.
C22_OneChunkWithoutMarker ==
    fn_pc = "done" =>
        /\ ChunksBeginAtMarkers
        /\ NoMarkerLine(fn_arg.text) => Len(fn_ret) = 1

\* C22, amended: every chunk other than the first begins with a line that
\* matches a section-break marker, and an input with no marker line is never
\* split however far it exceeds max_chunk_size: it yields its stripped text
\* as the single chunk, or no chunk when it is all whitespace.
C22_NoSplitWithoutMarker ==
    fn_pc = "done" =>
        /\ ChunksBeginAtMarkers
        /\ NoMarkerLine(fn_arg.text) =>
              fn_ret = IF strip(fn_arg.text) = <<>> THEN <<>> ELSE << strip(fn_arg.text) >>

\* A text longer than max_chunk_size has been split in several chunks, and
\* its first chunk is not empty.
C22_Witness ==
    /\ fn_pc = "done"
    /\ Len(fn_arg.text) > fn_arg.max_chunk_size
    /\ Len(fn_ret) >= 2
    /\ fn_ret[1] # <<>>

\* The tables between the section's header and the next major heading.
tables_after_header(soup, section_id, section_title) ==
    LET elements == all_elements(soup)
        header == section_start_element(elements, section_id, section_title)
        after == {k \in 1..Len(elements) : k > header /\ is_next_major_section(elements[k])}
        stop == IF after = {} THEN Len(elements) + 1 ELSE Min(after)
    IN  IF header = 0 THEN {}
        ELSE {elements[k] : k \in {j \in (header + 1)..(stop - 1) : elements[j].name = "table"}}

\* The texts of the tables attached to a section.
attached_texts(section) ==
    {section.visual_elements[v].extracted_text : v \in 1..Len(section.visual_elements)}

\* C23: a table is attached to a section only if it has at least 3 rows, at
\* least 2 hits from the financial vocabulary, no boilerplate phrase, and at
\* least 2 hits from the section's keyword set where the section has one; the
\* table "Year | Premium | Loss Ratio", "2023 | $100M | 62%",
\* "2022 | $95M | 64%" after a section's header is attached to item_7 and not
\* attached to item_1a.
C23_AttachedTablesPassFilters ==
    \A k \in 1..Len(stores) :
        LET section == stores[k].section
            soup == Docs[current_soup].soup
            following == tables_after_header(soup, section.section_id, section.title)
        IN  /\ \A t \in attached_texts(section) :
                  /\ \E table \in following :
                        Len(table.rows) >= 3 /\ extract_table_text(table) = t
                  /\ count_in(financial_keywords, lower(t)) >= 2
                  /\ ~any_in(skip_phrases, lower(t))
                  /\ section_keywords(section.section_id) # <<>> =>
                        count_in(section_keywords(section.section_id), lower(t)) >= 2
            /\ (section.section_id = s_item_7 /\ FinancialTable \in following) =>
                  extract_table_text(FinancialTable) \in attached_texts(section)
            /\ section.section_id = s_item_1a =>
                  extract_table_text(FinancialTable) \notin attached_texts(section)

\* A parse has stored item_7 with the financial table attached, and item_1a,
\* whose header the same table follows, without it.
C23_Witness ==
    /\ Parsed
    /\ \E k \in 1..Len(stores) :
          /\ stores[k].section.section_id = s_item_7
          /\ extract_table_text(FinancialTable) \in attached_texts(stores[k].section)
    /\ \E k \in 1..Len(stores) :
          /\ stores[k].section.section_id = s_item_1a
          /\ FinancialTable \in tables_after_header(Docs[current_soup].soup, s_item_1a,
                                                    stores[k].section.title)
          /\ stores[k].section.visual_elements = <<>>

(***************************************************************************)
(* _extract_section_content_from_chunk and _regex_find_section_boundary   *)
(* on their own                                                            *)
(***************************************************************************)
\* Chunks as the splitter yields them, stripped and not empty: a short one;
\* an Item 7 section of 500 characters before the Item 8 header; the same
\* section of more than 1000 characters under its part header; a header with
\* 600 blanks before the next header; a long section with no next header;
\* a next header within the first 500 characters only.
ExtractChunks ==
    { <<"a","b">>,
      <<"I","t","e","m"," ","7","."," ","M","a","n","a","g","e","m","e","n","t","'","s"," ","D","i","s","c","u","s","s","i","o","n"," ","a","n","d"," ","A","n","a","l","y","s","i","s","\n">> \o Text500
          \o <<"\n","I","t","e","m"," ","8","."," ","C","o","n","t","r","o","l","s","\n","T","e","x","t"," ","a","f","t","e","r"," ","i","t","e","m"," ","8",".">>,
      <<"P","A","R","T"," ","I","I","\n","I","t","e","m"," ","7","."," ","M","a","n","a","g","e","m","e","n","t","'","s"," ","D","i","s","c","u","s","s","i","o","n"," ","a","n","d"," ","A","n","a","l","y","s","i","s","\n","P","r","e","m","i","u","m","s"," ","g","r","e","w",".","\n">>
          \o LongText \o <<"\n","I","t","e","m"," ","8","."," ","F","i","n","a","n","c","i","a","l"," ","S","t","a","t","e","m","e","n","t","s","\n","B","a","l","a","n","c","e"," ","s","h","e","e","t",".">>,
      <<"I","t","e","m"," ","7","."," ","R","e","s","u","l","t","s">> \o rep(" ", 600) \o <<"\n","I","t","e","m"," ","8","."," ","C","o","n","t","r","o","l","s","\n">> \o Text500,
      <<"I","t","e","m"," ","7","."," ","R","e","s","u","l","t","s","\n">> \o LongText,
      <<"I","t","e","m"," ","7","."," ","R","e","s","u","l","t","s","\n">> \o rep("y", 150) \o <<"\n","I","t","e","m"," ","8","."," ","C","o","n","t","r","o","l","s","\n">> \o LongText }

\* Section claims: an identifier with patterns in the chunks, one with
\* patterns elsewhere, one without patterns; a hint that the chunks hold, a
\* hint they do not hold, no hint.
ExtractSectionInfos ==
    { SectionFound(id, s_part_2, s_mda_title, hint, 1000, <<>>) :
          id \in {s_item_7, s_item_1a, s_section},
          hint \in {<<"I","t","e","m"," ","7",".">>, <<"O","v","e","r","v","i","e","w"," ","o","f">>, <<>>} }

\* Replies of the boundary oracle: an exception, no content, NOT_FOUND, a
\* position that leaves enough text, zero, a position that leaves too little
\* text in the chunk of blanks, a position past the end, not a number.
ExtractReplies ==
    { OracleRaise, OracleEmpty, OracleText(s_not_found), OracleText(<<" ","6","0","0"," ">>),
      OracleText(<<"0">>), OracleText(<<"5","5","0">>), OracleText(<<"9","9","9","9","9">>), OracleText(<<"1","2","a">>) }

\* Without an oracle there is no reply to vary.
ExtractInputs ==
    [chunk : ExtractChunks, section_info : ExtractSectionInfos,
     has_client : {TRUE}, reply : ExtractReplies]
    \cup [chunk : ExtractChunks, section_info : ExtractSectionInfos,
          has_client : {FALSE}, reply : {OracleRaise}]

InitExtract ==
    /\ fn_pc = "ready"
    /\ fn_arg \in ExtractInputs
    /\ fn_loc = <<>>
    /\ fn_ret = <<>>
    /\ MainIdle

\* _extract_section_content_from_chunk(chunk, section_info).  fn_loc keeps
\* the window after the start hint, where the hint is found.
CallExtract ==
    /\ fn_pc = "ready"
    /\ fn_ret' = extract_section_content_from_chunk(fn_arg.chunk, fn_arg.section_info,
                                                    fn_arg.has_client, fn_arg.reply)
    /\ fn_loc' = LET hint == fn_arg.section_info.content_start
                     start_pos == find(lower(fn_arg.chunk),
                                       slice(lower(hint), 0, HintPrefixLen), 0)
                 IN  [found |-> hint # <<>> /\ start_pos # -1,
                      window |-> IF hint # <<>> /\ start_pos # -1
                                 THEN slice(fn_arg.chunk, start_pos, start_pos + SectionWindow)
                                 ELSE <<>>]
    /\ fn_pc' = "extracted"
    /\ UNCHANGED <<fn_arg, main_vars>>

\* _regex_find_section_boundary(chunk, section_id) on the chunk as window.
CallRegexBoundary ==
    /\ fn_pc = "ready"
    /\ fn_ret' = regex_find_section_boundary(fn_arg.chunk, fn_arg.section_info.section_id).val
    /\ fn_loc' = [found |-> TRUE, window |-> fn_arg.chunk]
    /\ fn_pc' = "bounded"
    /\ UNCHANGED <<fn_arg, main_vars>>

NextExtract == CallExtract \/ CallRegexBoundary

SpecExtract == InitExtract /\ [][NextExtract]_vars

Extracted == fn_pc = "extracted"

\* Nothing matches: the start hint is absent or not in the chunk, and no
\* pattern of the section identifier is in the chunk.
NothingMatches ==
    /\ ~fn_loc.found
    /\ \A k \in 1..Len(section_patterns(fn_arg.section_info.section_id)) :
          re_search(section_patterns(fn_arg.section_info.section_id)[k],
                    lower(fn_arg.chunk)) = -1

ReplyAccepted ==
    /\ fn_arg.reply.kind = "text"
    /\ isdigit(strip(fn_arg.reply.text))
    /\ LET p == int_of(strip(fn_arg.reply.text))
       IN  /\ 0 < p /\ p < Len(fn_loc.window)
           /\ Len(strip(slice(fn_loc.window, 0, p))) >= 500

\* The boundary oracle is asked: there is one, and the window has more than
\* 1000 characters.
OracleAsked == fn_arg.has_client /\ Len(fn_loc.window) > 1000

Bounded == fn_pc = "bounded"

\* The offsets, at 500 or later, of the first match of each boundary pattern
\* in the window.
first_matches(window) ==
    {500 + re_search(next_section_patterns[k], lower(slice(window, 500, Len(window)))) :
         k \in {j \in 1..Len(next_section_patterns) :
                   re_search(next_section_patterns[j],
                             lower(slice(window, 500, Len(window)))) # -1}}

\* Where the section ends as C26 states it: at the smallest first match, or
\* at the end of the window.
stated_end(window) == Min({Len(window)} \cup first_matches(window))

\* C26, as stated: the regex boundary search never ends the section within
\* the first 500 characters of the window: the end is the smallest, over all
\* boundary patterns, of the first match at offset 500 or later, and the
\* whole window is returned when no pattern matches.
C26_EndAtFirstMatch ==
    Bounded => fn_ret = strip(slice(fn_loc.window, 0, stated_end(fn_loc.window)))

\* C26, amended: the same, unless the trimmed text before that end has fewer
\* than 100 characters; then the first 5000 characters of the window are
\* returned, trimmed, whatever boundary was found.
C26_EndAtFirstMatchUnlessShort ==
    Bounded =>
        LET to_end == strip(slice(fn_loc.window, 0, stated_end(fn_loc.window)))
        IN  fn_ret = IF Len(to_end) >= 100 THEN to_end
                     ELSE strip(slice(fn_loc.window, 0, 5000))

\* The search ended the section at a boundary pattern at offset 500 or
\* later.
C26_Witness ==
    /\ Bounded
    /\ first_matches(fn_loc.window) # {}
    /\ fn_ret = strip(slice(fn_loc.window, 0, stated_end(fn_loc.window)))
    /\ Len(fn_ret) < Len(strip(fn_loc.window))

(***************************************************************************)
(* Two parse_structured_filing invocations on one TenKStructureParser.     *)
(* self.current_soup is the parser's; chunks, the position in them and     *)
(* parsed_sections are locals of each invocation, kept in fn_loc.          *)
(***************************************************************************)
\* The filings of the two invocations.
InterleavedFilings == { <<1, 2>>, <<1, 4>> }

\* The valid replies of the structure-mapping oracle in this setting.
InterleavedSectionLists == { <<sf_item_7>>, <<sf_item_1a>> }

InitInterleaved ==
    /\ fn_pc = "interleaved"
    /\ fn_arg \in InterleavedFilings
    /\ fn_loc = [p \in 1..2 |-> [pc |-> "start", chunks |-> <<>>, i |-> 0,
                                 pending |-> <<>>, parsed |-> <<>>]]
    /\ fn_ret = <<>>
    /\ client = TRUE
    /\ current_soup = 0
    /\ pc = "off"
    /\ parse_chunks = <<>>
    /\ parse_i = 0
    /\ pending_sections = <<>>
    /\ parse_sections = Dict(<<>>)
    /\ result = NoResult
    /\ raised = "none"
    /\ last = NoQuery
    /\ stores = <<>>
    /\ failures = {}
    /\ calls = <<>>
    /\ fetch = NoFetch

\* What an invocation leaves alone besides its own locals.
InterleavedUnchanged ==
    UNCHANGED <<client, pc, parse_chunks, parse_i, pending_sections, parse_sections,
                result, raised, last, stores, failures, calls, fetch, fn_pc, fn_arg, fn_ret>>

\* parse_structured_filing of invocation p up to the loop over the chunks:
\* self.current_soup is assigned.
InvParse(p) ==
    /\ fn_loc[p].pc = "start"
    /\ current_soup' = fn_arg[p]
    /\ fn_loc' = [fn_loc EXCEPT
                     ![p].pc = "chunks",
                     ![p].chunks = split_content_intelligently(
                                       preprocess_filing_content(Docs[fn_arg[p]].text_content),
                                       ParseMaxChunkSize)]
    /\ InterleavedUnchanged

\* One iteration of invocation p's loop over chunks[:6]: the reply of the
\* structure-mapping oracle, valid or not.
InvChunk(p) ==
    /\ fn_loc[p].pc = "chunks"
    /\ fn_loc[p].i < Len(fn_loc[p].chunks) /\ fn_loc[p].i < MaxChunksProcessed
    /\ \E sections_found \in InterleavedSectionLists \cup {<<>>} :
         fn_loc' = [fn_loc EXCEPT
                       ![p].i = fn_loc[p].i + 1,
                       ![p].pending = sections_found,
                       ![p].pc = IF sections_found = <<>> THEN "chunks" ELSE "sections"]
    /\ UNCHANGED current_soup
    /\ InterleavedUnchanged

\* One iteration of invocation p's loop over sections_found: the visuals are
\* looked for in self.current_soup as it is now.
InvSection(p) ==
    /\ fn_loc[p].pc = "sections"
    /\ LET chunk == fn_loc[p].chunks[fn_loc[p].i]
           section_info == Head(fn_loc[p].pending)
       IN  \E script \in Scripts(chunk, section_info) :
             \E built \in {build_section(chunk, section_info,
                                         Docs[current_soup].soup, script)} :
               fn_loc' = [fn_loc EXCEPT
                             ![p].pending = Tail(fn_loc[p].pending),
                             ![p].pc = IF Tail(fn_loc[p].pending) = <<>>
                                       THEN "chunks" ELSE "sections",
                             ![p].parsed = IF built.some
                                           THEN Append(fn_loc[p].parsed, built.val)
                                           ELSE fn_loc[p].parsed]
    /\ UNCHANGED current_soup
    /\ InterleavedUnchanged

\* The end of invocation p's loop.
InvReturn(p) ==
    /\ fn_loc[p].pc = "chunks"
    /\ ~(fn_loc[p].i < Len(fn_loc[p].chunks) /\ fn_loc[p].i < MaxChunksProcessed)
    /\ fn_loc' = [fn_loc EXCEPT ![p].pc = "returned"]
    /\ UNCHANGED current_soup
    /\ InterleavedUnchanged

NextInterleaved ==
    \/ \E p \in 1..2 : InvParse(p)
    \/ \E p \in 1..2 : InvChunk(p)
    \/ \E p \in 1..2 : InvSection(p)
    \/ \E p \in 1..2 : InvReturn(p)

SpecInterleaved == InitInterleaved /\ [][NextInterleaved]_vars

\* The texts of the tables after the section's header in a document tree
\* that the filters accept, as many as a section may own.
own_table_texts(soup, section) ==
    LET visuals == find_visuals_for_section(soup, section.section_id, section.title,
                                            FALSE, DescribeReplies)
    IN  [v \in 1..Len(visuals) |-> visuals[v].extracted_text]

\* C27: when two parse_structured_filing invocations for different filings
\* interleave on one parser, every section of each invocation gets its
\* visual elements from that invocation's own document tree.
C27_VisualsFromOwnDocument ==
    \A p \in 1..2 :
        \A k \in 1..Len(fn_loc[p].parsed) :
            LET section == fn_loc[p].parsed[k]
            IN  [v \in 1..Len(section.visual_elements) |->
                     section.visual_elements[v].extracted_text]
                    = own_table_texts(Docs[fn_arg[p]].soup, section)

(***************************************************************************)
(* AnthropicSecAgent.chat: the loop of model calls for one user message.   *)
(* fn_arg is the length of conversation_history; fn_loc holds the locals   *)
(* and, as history, the number of model calls and the last reply.          *)
(***************************************************************************)
max_iterations == 10

s_max_iterations_reached == <<"M","a","x","i","m","u","m"," ","t","o","o","l"," ","i","t","e","r","a","t","i","o","n","s"," ","r","e","a","c","h","e","d","."," ","P","l","e","a","s","e"," ","t","r","y"," ","a"," ","s","i","m","p","l","e","r"," ","r","e","q","u","e","s","t",".">>

\* f"Error: {e}"
error_message(e) == <<"E","r","r","o","r",":"," ">> \o e

ChatHistories == {0, 2}

\* The texts of a final reply's content blocks, concatenated.
FinalTexts == { <<>>, <<"P","r","e","m","i","u","m","s"," ","g","r","e","w",".">> }

\* The number of tool_use blocks in a reply whose stop reason is tool_use.
ToolBlockCounts == 0..2

InitChat ==
    /\ fn_pc = "chat"
    /\ fn_arg \in ChatHistories
    /\ fn_loc = [iteration |-> 0, messages |-> fn_arg + 1, tools_run |-> 0,
                 model_calls |-> 0, stop_reason |-> "none", text |-> <<>>]
    /\ fn_ret = [kind |-> "none", text |-> <<>>]
    /\ MainIdle

\* An iteration in which messages.create raises: the except clause returns
\* the error string.
ChatCallFails ==
    /\ fn_pc = "chat"
    /\ fn_loc.iteration < max_iterations
    /\ fn_loc' = [fn_loc EXCEPT !.model_calls = @ + 1, !.stop_reason = "raise"]
    /\ fn_ret' = [kind |-> "error", text |-> error_message(<<"A","P","I","E","r","r","o","r">>)]
    /\ fn_pc' = "chat_returned"
    /\ UNCHANGED <<fn_arg, main_vars>>

\* An iteration whose reply has the stop reason tool_use: every tool_use
\* block is executed (execute_tool returns a result, never raises) and the
\* results are appended; json.dumps raises for a result it cannot serialise.
ChatToolUse ==
    /\ fn_pc = "chat"
    /\ fn_loc.iteration < max_iterations
    /\ \E blocks \in ToolBlockCounts : \E serialisable \in BOOLEAN :
         IF serialisable \/ blocks = 0
         THEN /\ fn_loc' = [fn_loc EXCEPT !.model_calls = @ + 1,
                                          !.stop_reason = "tool_use",
                                          !.tools_run = @ + blocks,
                                          !.messages = @ + 2,
                                          !.iteration = @ + 1]
              /\ UNCHANGED <<fn_pc, fn_ret>>
         ELSE /\ fn_loc' = [fn_loc EXCEPT !.model_calls = @ + 1,
                                          !.stop_reason = "tool_use",
                                          !.tools_run = @ + 1]
              /\ fn_ret' = [kind |-> "error", text |-> error_message(<<"T","y","p","e","E","r","r","o","r">>)]
              /\ fn_pc' = "chat_returned"
    /\ UNCHANGED <<fn_arg, main_vars>>

\* An iteration whose reply has another stop reason: its text is returned.
ChatFinalResponse ==
    /\ fn_pc = "chat"
    /\ fn_loc.iteration < max_iterations
    /\ \E final_response \in FinalTexts :
         /\ fn_loc' = [fn_loc EXCEPT !.model_calls = @ + 1, !.stop_reason = "end_turn",
                                     !.text = final_response]
         /\ fn_ret' = [kind |-> "text", text |-> final_response]
    /\ fn_pc' = "chat_returned"
    /\ UNCHANGED <<fn_arg, main_vars>>

\* The loop ends at max_iterations.
ChatMaxIterations ==
    /\ fn_pc = "chat"
    /\ ~(fn_loc.iteration < max_iterations)
    /\ fn_ret' = [kind |-> "max", text |-> s_max_iterations_reached]
    /\ fn_pc' = "chat_returned"
    /\ UNCHANGED <<fn_arg, fn_loc, main_vars>>

NextChat == ChatCallFails \/ ChatToolUse \/ ChatFinalResponse \/ ChatMaxIterations

\* Every model call returns or raises, and the loop body then runs to its
\* end: an iteration that can run does run.
SpecChat == InitChat /\ [][NextChat]_vars /\ WF_vars(NextChat)

ChatReturned == fn_pc = "chat_returned"

\* What chat returns is as C28 states it, given the last reply.
ChatResultAsStated ==
    /\ fn_loc.model_calls <= 10
    /\ ~ChatReturned => fn_loc.stop_reason \in {"none", "tool_use"}
    /\ ChatReturned =>
          /\ fn_loc.stop_reason = "end_turn" =>
                fn_ret = [kind |-> "text", text |-> fn_loc.text]
          /\ fn_loc.stop_reason = "raise" =>
                fn_ret.kind = "error" /\ slice(fn_ret.text, 0, 7) = <<"E","r","r","o","r",":"," ">>
          /\ fn_loc.stop_reason = "tool_use" =>
                \/ /\ fn_ret = [kind |-> "max", text |-> s_max_iterations_reached]
                   /\ fn_loc.model_calls = 10
                   /\ fn_loc.iteration = 10
                \/ fn_ret.kind = "error" /\ slice(fn_ret.text, 0, 7) = <<"E","r","r","o","r",":"," ">>
          /\ fn_ret.kind = "max" => fn_loc.model_calls = 10

C29_LookupNeverRaises ==
    (Looked /\ ~client) =>
        /\ last.outcome.kind # "raise"
        /\ raised = "none"
        /\ last.outcome.kind = "value" =>
              \E e \in stored_entries(result.structure) :
                  last.outcome.value = Obj(e.section)

\* The lines of a sequence at the positions of S, in order.
RECURSIVE lines_at(_, _)
lines_at(lines, S) ==
    IF lines = <<>> THEN <<>>
    ELSE LET rest == lines_at(SubSeq(lines, 1, Len(lines) - 1), S)
         IN  IF Len(lines) \in S THEN Append(rest, lines[Len(lines)]) ELSE rest

\* The text is the join of a subsequence of the lines.
JoinOfSubsequence(text, lines) ==
    \E S \in SUBSET (1..Len(lines)) : text = join_lines(lines_at(lines, S))

\* The lines at which the position-based fallback may start the output: past
\* 20% of the document, longer than 50 characters, with a business word.
fallback_lines(lines) ==
    {i \in 1..Len(lines) :
        /\ i > Len(lines) \div 5
        /\ Len(strip(lines[i])) > 50
        /\ any_in(position_words, lower(lines[i]))}

\* C30: the preprocessor only removes lines: its output lines are a
\* subsequence of the input lines in their order, so the cleaned text is never
\* longer than the input; no line is output before the narrative start is
\* detected, unless the position-based fallback fires, and then the output is
\* a suffix of the input lines.
C30_OnlyRemovesLines ==
    LET lines == split_lines(fn_arg)
    IN  /\ fn_pc = "lines" =>
              /\ JoinOfSubsequence(join_lines(fn_loc.st.cleaned_lines),
                                   SubSeq(lines, 1, fn_loc.i))
              /\ ~fn_loc.st.found_narrative_start => fn_loc.st.cleaned_lines = <<>>
        /\ Preprocessed =>
              /\ JoinOfSubsequence(fn_ret, lines)
              /\ Len(fn_ret) <= Len(fn_arg)
              /\ ~fn_loc.st.found_narrative_start =>
                    IF fallback_lines(lines) = {} THEN fn_ret = <<>>
                    ELSE \E i \in fallback_lines(lines) :
                            fn_ret = join_lines(SubSeq(lines, i, Len(lines)))

\* The preprocessor has removed lines before the narrative start and kept
\* the rest.
C30_Witness ==
    /\ Preprocessed
    /\ fn_loc.st.found_narrative_start
    /\ fn_loc.start_at > 1
    /\ fn_ret # <<>>
    /\ Len(fn_ret) < Len(fn_arg)

====
